---------------------------- MODULE Spec2Model ----------------------------
(***************************************************************************)
(* A model of xmlsurf (github.com/bmcszk/xmlsurf): the codec between an    *)
(* XML event stream and a flat map from XPath-like keys to values, the     *)
(* tree builder and serializer behind ToXML, and the two comparison        *)
(* engines (Diffs / DiffsIgnoreOrder).                                     *)
(*                                                                         *)
(* Go strings are TLA+ strings; Len, SubSeq and \o act on them byte by     *)
(* byte, and the helpers below are the functions of package strings the    *)
(* code calls, computed the way the library computes them.                 *)
(***************************************************************************)
EXTENDS Integers, Sequences, FiniteSets, TLC

VARIABLES
    \* The comparison methods
    a,          \* one XMLMap given to the comparison methods
    b,          \* the other
    calls,      \* the comparison calls made so far, each with what it returned
    \* ToXML
    xmap,       \* the XMLMap ToXML is called on
    tpc,        \* where ToXML stands: "idle", "start", "build", "write", "done", "error"
    rootPath,   \* ToXML's rootPath
    paths,      \* buildXMLTree's sorted paths not yet processed
    nodes,      \* the xmlNodes allocated so far; a *xmlNode is an index, 0 is nil
    nodeMap,    \* buildXMLTree's nodeMap
    wstack,     \* the active calls of writeXMLNode, innermost last
    output,     \* the tokens given to the encoder so far
    terr,       \* the error ToXML returned, "" for none
    \* ParseToMap
    opts,          \* the options ParseToMap is called with, in the order given
    options,       \* ParseToMap's options, ValueTransform as the chain of transforms
    result,        \* ParseToMap's result
    pathStack,     \* ParseToMap's pathStack
    currentPath,   \* ParseToMap's currentPath
    elementCounts, \* ParseToMap's elementCounts
    namespaces,    \* ParseToMap's namespaces
    rootSeen,      \* ParseToMap's rootSeen
    ppc,           \* where ParseToMap stands: "idle", "run", "done", "error"
    perr,          \* the error ParseToMap returned, "" for none
    tokenErr,      \* the err of the last decoder.Token() call, "" for nil
    \* The reader and the Decoder
    reader,        \* what is left of the document ParseToMap reads
    dstack,        \* the Decoder's open elements with the bindings in scope
    doc,           \* the elements opened so far: of each its parent, its name as
                   \* written and as resolved, its local name, the qualified
                   \* names it has under the bindings in scope where it is
                   \* opened, its attributes and its text
    \* Parsing the output of ToXML again, and calling ToXML again
    round,         \* the stage of a round trip, or of two calls of ToXML on one
                   \* map, and what the first call returned
    \* The pool of string builders and the calls that run concurrently
    pathBuilderPool, \* the builders that lie in the pool
    builders,        \* the strings.Builders allocated so far, each with its buffer
    goroutines,      \* of each goroutine the call it runs, where it stands, the
                     \* builder it holds (0 for none), what it wrote since its
                     \* last Reset, what String() last returned, and how often
                     \* it got a builder and put one back
    \* comparePaths called as the less function of a sort
    lessCalls        \* the calls made so far: the two paths and the answer

diffVars == <<a, b, calls>>
treeVars == <<xmap, tpc, rootPath, paths, nodes, nodeMap, wstack, output, terr>>
parseVars ==
    <<opts, options, result, pathStack, currentPath, elementCounts, namespaces,
      rootSeen, ppc, perr, tokenErr, reader, dstack, doc>>
poolVars == <<pathBuilderPool, builders, goroutines>>
sortVars == <<lessCalls>>
vars == <<diffVars, treeVars, parseVars, round, poolVars, sortVars>>

\* No comparison call and no ToXML call is under way.
DiffIdle == a = <<>> /\ b = <<>> /\ calls = {}
TreeIdle ==
    /\ xmap = <<>> /\ tpc = "idle" /\ rootPath = "" /\ paths = <<>> /\ nodes = <<>>
    /\ nodeMap = <<>> /\ wstack = <<>> /\ output = <<>> /\ terr = ""
ParseIdle ==
    /\ opts = <<>> /\ options = <<>>
    /\ result = <<>> /\ pathStack = <<>> /\ currentPath = ""
    /\ elementCounts = <<>> /\ namespaces = <<>> /\ rootSeen = FALSE
    /\ ppc = "idle" /\ perr = "" /\ tokenErr = ""
    /\ reader = <<>> /\ dstack = <<>> /\ doc = <<>>
RoundIdle == round = <<>>
PoolIdle == pathBuilderPool = {} /\ builders = <<>> /\ goroutines = <<>>
SortIdle == lessCalls = {}

-----------------------------------------------------------------------------
(* Package strings                                                         *)

\* The bytes that occur in the model's strings, in ASCII order.
Alphabet == " /0123456789:@ABCDEFGHIJKLMNOPQRSTUVWXYZ[]abcdefghijklmnopqrstuvwxyz"

\* The rank of each one-byte string in ASCII order.
OrdOf ==
    [c \in {SubSeq(Alphabet, i, i) : i \in 1..Len(Alphabet)} |->
        CHOOSE i \in 1..Len(Alphabet) : SubSeq(Alphabet, i, i) = c]

Ord(c) == OrdOf[c]

\* s[i:] and s[:i] with Go's 0-based offsets.
From(s, i) == SubSeq(s, i + 1, Len(s))
Upto(s, i) == SubSeq(s, 1, i)

HasPrefix(s, prefix) ==
    Len(prefix) <= Len(s) /\ SubSeq(s, 1, Len(prefix)) = prefix

TrimPrefix(s, prefix) == IF HasPrefix(s, prefix) THEN From(s, Len(prefix)) ELSE s

\* strings.Index: the 0-based offset of the first occurrence of sub, or -1.
RECURSIVE IndexFrom(_, _, _)
IndexFrom(s, sub, i) ==
    IF i + Len(sub) > Len(s) THEN -1
    ELSE IF SubSeq(s, i + 1, i + Len(sub)) = sub THEN i
    ELSE IndexFrom(s, sub, i + 1)

Index(s, sub) == IndexFrom(s, sub, 0)

Contains(s, sub) == Index(s, sub) >= 0

\* strings.Count for a non-empty sub of one byte.
Count(s, sub) == Cardinality({i \in 1..Len(s) : SubSeq(s, i, i) = sub})

RECURSIVE Split(_, _)
Split(s, sep) ==
    LET i == Index(s, sep)
    IN  IF i = -1 THEN <<s>>
        ELSE <<Upto(s, i)>> \o Split(From(s, i + Len(sep)), sep)

\* The < of Go strings: bytewise lexicographic.
RECURSIVE StrLess(_, _)
StrLess(s, t) ==
    IF t = "" THEN FALSE
    ELSE IF s = "" THEN TRUE
    ELSE LET cs == SubSeq(s, 1, 1)
             ct == SubSeq(t, 1, 1)
         IN  IF cs # ct THEN Ord(cs) < Ord(ct)
             ELSE StrLess(From(s, 1), From(t, 1))

RECURSIVE TrimSpace(_)
TrimSpace(s) ==
    IF s = "" THEN s
    ELSE IF SubSeq(s, 1, 1) = " " THEN TrimSpace(From(s, 1))
    ELSE IF SubSeq(s, Len(s), Len(s)) = " " THEN TrimSpace(Upto(s, Len(s) - 1))
    ELSE s

Digits == "0123456789"

\* fmt.Sprint of a non-negative int: its decimal digits.
RECURSIVE Sprint(_)
Sprint(n) ==
    LET d == SubSeq(Digits, (n % 10) + 1, (n % 10) + 1)
    IN  IF n < 10 THEN d ELSE Sprint(n \div 10) \o d

-----------------------------------------------------------------------------
(* Base paths                                                              *)

\* The part before the first "[" (the code's "remove index from part").
StripIndex(part) ==
    LET idx == Index(part, "[")
    IN  IF idx # -1 THEN Upto(part, idx) ELSE part

\* extractBasePath: the path with the index of every segment removed.
RECURSIVE extractBasePathFrom(_, _)
extractBasePathFrom(parts, i) ==
    IF i > Len(parts) THEN ""
    ELSE IF parts[i] = "" THEN extractBasePathFrom(parts, i + 1)
    ELSE StripIndex(parts[i])
         \o (IF i < Len(parts) THEN "/" ELSE "")
         \o extractBasePathFrom(parts, i + 1)

extractBasePath(path) ==
    LET parts == Split(path, "/")
    IN  IF parts[1] = "" THEN "/" \o extractBasePathFrom(parts, 2)
        ELSE extractBasePathFrom(parts, 1)

\* The keys of the maps the comparison methods are given.
DiffKeys == {"/r/a[1]", "/r/a[2]", "/r/b"}

\* extractBasePath of the keys above, computed once; basePathOf(k) is
\* extractBasePath(k) for every k.
BasePathTable == [k \in DiffKeys |-> extractBasePath(k)]

\* A comparison that groups by the key as it stands, indices included.
basePathOf_KeepIndex(k) == k

basePathOf(k) ==
    IF k \in DOMAIN BasePathTable THEN BasePathTable[k] ELSE extractBasePath(k)

-----------------------------------------------------------------------------
(* Diff, and the order-sensitive comparison                                 *)

\* An XMLMap is a function from keys (strings) to values (strings).
Len0(m) == Cardinality(DOMAIN m)

DiffMissing == 0
DiffExtra == 1
DiffValue == 2

\* A Diff; a value the code leaves unset is Go's zero value "".
Diff(path, left, right, type) ==
    [Path |-> path, LeftValue |-> left, RightValue |-> right, Type |-> type]

\* A first loop that reports value differences only and passes over a key
\* that other lacks.
leftAndValueDiffs_ValuesOnly(m, other) ==
    {Diff(path, m[path], other[path], DiffValue) :
        path \in {k \in DOMAIN m \cap DOMAIN other : m[k] # other[k]}}

\* The first loop of findDiffs (either branch): the keys of m that other
\* lacks, and the keys on which the two differ.
leftAndValueDiffs(m, other) ==
    {Diff(path, m[path], "", DiffExtra) : path \in DOMAIN m \ DOMAIN other}
    \cup {Diff(path, m[path], other[path], DiffValue) :
            path \in {k \in DOMAIN m \cap DOMAIN other : m[k] # other[k]}}

\* The second loop of findDiffs: the keys of other that m lacks.
rightDiffs(m, other) ==
    {Diff(path, "", other[path], DiffMissing) : path \in DOMAIN other \ DOMAIN m}

\* A sort that leaves the collected diffs in any order.
RECURSIVE SortedByPath_Unsorted(_)
SortedByPath_Unsorted(ds) ==
    IF ds = {} THEN {<<>>}
    ELSE UNION {{<<d>> \o rest : rest \in SortedByPath_Unsorted(ds \ {d})} : d \in ds}

\* What sort.Slice by Path may return for a collected set of diffs: every
\* arrangement in which no entry precedes one of a smaller Path (entries of
\* equal Path may come in either order: the sort is not stable).
RECURSIVE SortedByPath(_)
SortedByPath(ds) ==
    IF ds = {} THEN {<<>>}
    ELSE LET least == {d \in ds : \A e \in ds : ~StrLess(e.Path, d.Path)}
         IN  UNION {{<<d>> \o rest : rest \in SortedByPath(ds \ {d})} : d \in least}

\* findDiffs, before the sort: the second loop runs only when the two maps
\* differ in size.
collectDiffs(m, other) ==
    IF Len0(m) # Len0(other)
    THEN leftAndValueDiffs(m, other) \cup rightDiffs(m, other)
    ELSE leftAndValueDiffs(m, other)

\* findDiffs: the lists it may return.
findDiffs(m, other) == SortedByPath(collectDiffs(m, other))

\* Equal: len(findDiffs) == 0.
Equal(m, other) == collectDiffs(m, other) = {}

-----------------------------------------------------------------------------
(* The order-insensitive comparison                                         *)

\* pathsMap: the keys of m whose base path is basePath.
pathsOf(m, basePath) == {k \in DOMAIN m : basePathOf(k) = basePath}

\* values1 / values2: per base path, the SET of values found under it
\* (map[string]bool: a value seen twice is recorded once).
valueSets(m) ==
    [basePath \in {basePathOf(k) : k \in DOMAIN m} |->
        {m[k] : k \in pathsOf(m, basePath)}]

\* A set comparison without the length check: inclusion only.
mapSetsEqual_NoLength(set1, set2) == \A v \in set1 : v \in set2

mapSetsEqual(set1, set2) ==
    /\ Cardinality(set1) = Cardinality(set2)
    /\ \A v \in set1 : v \in set2

\* Every diff for the keys of one base path that the other side lacks.
allPathsDiffs(m, basePath, type) ==
    {IF type = DiffExtra THEN Diff(p, m[p], "", DiffExtra)
                         ELSE Diff(p, "", m[p], DiffMissing) :
        p \in pathsOf(m, basePath)}

\* One diff per value of vals that the other side's set lacks, citing the
\* first key in pathsMap that carries the value: pathsMap is filled in map
\* iteration order, so any key carrying the value may be the one cited.
excessDiffs(m, basePath, vals, otherVals, type) ==
    LET excess == vals \ otherVals
        cited  == {f \in [excess -> pathsOf(m, basePath)] :
                      \A v \in excess : m[f[v]] = v}
    IN  {{IF type = DiffExtra THEN Diff(f[v], v, "", DiffExtra)
                              ELSE Diff(f[v], "", v, DiffMissing) : v \in excess} :
            f \in cited}

\* collectDiffsForBasePath: the sets of diffs it may append.
collectDiffsForBasePath(basePath, vals1, vals2, exists, m, other) ==
    IF ~exists THEN {allPathsDiffs(m, basePath, DiffExtra)}
    ELSE {l \cup r : l \in excessDiffs(m, basePath, vals1, vals2, DiffExtra),
                     r \in excessDiffs(other, basePath, vals2, vals1, DiffMissing)}

\* The union of one choice from each of a family of sets of diff sets.
RECURSIVE UnionOfChoices(_)
UnionOfChoices(family) ==
    IF family = {} THEN {{}}
    ELSE LET one == CHOOSE x \in family : TRUE
         IN  {c \cup rest : c \in one, rest \in UnionOfChoices(family \ {one})}

\* collectDiffsFromValueSets: used when the numbers of base paths differ.
collectDiffsFromValueSets(values1, values2, m, other) ==
    LET perLeft ==
            {IF basePath \notin DOMAIN values2
             THEN {allPathsDiffs(m, basePath, DiffExtra)}
             ELSE collectDiffsForBasePath(basePath, values1[basePath],
                                          values2[basePath], TRUE, m, other) :
                basePath \in DOMAIN values1}
        right ==
            UNION {allPathsDiffs(other, basePath, DiffMissing) :
                     basePath \in DOMAIN values2 \ DOMAIN values1}
    IN  {l \cup right : l \in UnionOfChoices(perLeft)}

\* The same-count branch of findDiffsIgnoreOrder: only the base paths of m
\* are visited.
collectDiffsSameCount(values1, values2, m, other) ==
    LET perLeft ==
            {IF basePath \notin DOMAIN values2
             THEN collectDiffsForBasePath(basePath, values1[basePath], {},
                                          FALSE, m, other)
             ELSE IF ~mapSetsEqual(values1[basePath], values2[basePath])
             THEN collectDiffsForBasePath(basePath, values1[basePath],
                                          values2[basePath], TRUE, m, other)
             ELSE {{}} :
                basePath \in DOMAIN values1}
    IN  UnionOfChoices(perLeft)

\* findDiffsIgnoreOrder, before the sort: the sets of diffs it may collect.
collectDiffsIgnoreOrder(m, other) ==
    LET values1 == valueSets(m)
        values2 == valueSets(other)
    IN  IF Cardinality(DOMAIN values1) # Cardinality(DOMAIN values2)
        THEN collectDiffsFromValueSets(values1, values2, m, other)
        ELSE collectDiffsSameCount(values1, values2, m, other)

\* findDiffsIgnoreOrder: the lists it may return.
findDiffsIgnoreOrder(m, other) ==
    UNION {SortedByPath(ds) : ds \in collectDiffsIgnoreOrder(m, other)}

-----------------------------------------------------------------------------
(* The comparison methods as operations on two maps                        *)


\* Bounds of the maps compared and of the number of calls recorded.
MaxEntries == 2
MaxCalls == 2

DiffValues == {"x", "y"}

\* Every map with at most MaxEntries entries over the keys and values above.
DiffMaps ==
    UNION {[S -> DiffValues] :
             S \in {T \in SUBSET DiffKeys : Cardinality(T) <= MaxEntries}}

\* The receiver and the argument of a call made on `recv`.
Recv(recv) == IF recv = "a" THEN a ELSE b
Arg(recv) == IF recv = "a" THEN b ELSE a

Record(op, recv, res) ==
    /\ calls' = calls \cup {[op |-> op, recv |-> recv, out |-> res]}
    /\ UNCHANGED <<a, b>>
    /\ UNCHANGED <<treeVars, parseVars, round, poolVars, sortVars>>

\* m.Equal(other)
CallEqual ==
    /\ Cardinality(calls) < MaxCalls
    /\ \E recv \in {"a", "b"} :
          Record("Equal", recv, Equal(Recv(recv), Arg(recv)))

\* m.Diffs(other)
CallDiffs ==
    /\ Cardinality(calls) < MaxCalls
    /\ \E recv \in {"a", "b"} :
          \E out \in findDiffs(Recv(recv), Arg(recv)) :
              Record("Diffs", recv, out)

\* m.EqualIgnoreOrder(other): len(findDiffsIgnoreOrder) == 0
CallEqualIgnoreOrder ==
    /\ Cardinality(calls) < MaxCalls
    /\ \E recv \in {"a", "b"} :
          \E ds \in collectDiffsIgnoreOrder(Recv(recv), Arg(recv)) :
              Record("EqualIgnoreOrder", recv, ds = {})

\* m.DiffsIgnoreOrder(other)
CallDiffsIgnoreOrder ==
    /\ Cardinality(calls) < MaxCalls
    /\ \E recv \in {"a", "b"} :
          \E out \in findDiffsIgnoreOrder(Recv(recv), Arg(recv)) :
              Record("DiffsIgnoreOrder", recv, out)

InitDiff ==
    /\ a \in DiffMaps
    /\ b \in DiffMaps
    /\ calls = {}
    /\ TreeIdle /\ ParseIdle /\ RoundIdle /\ PoolIdle /\ SortIdle

NextDiff ==
    \/ CallEqual
    \/ CallDiffs
    \/ CallEqualIgnoreOrder
    \/ CallDiffsIgnoreOrder

SpecDiff == InitDiff /\ [][NextDiff]_vars

-----------------------------------------------------------------------------
(* The tokens encoding/xml's Decoder delivers to ParseToMap                *)

\* A document is a sequence of tokens as written: a start tag with its
\* qualified name and attributes, a run of text, an end tag.  These are also
\* the tokens ToXML hands to the encoder, so ToXML's output is a document.
StartToken(name, attrs) == [kind |-> "start", name |-> name, attrs |-> attrs, value |-> ""]
TextToken(value) == [kind |-> "text", name |-> "", attrs |-> <<>>, value |-> value]
EndToken(name) == [kind |-> "end", name |-> name, attrs |-> <<>>, value |-> ""]

\* The Decoder's nsname: a written name splits at its colon into space and
\* local part; a name with a second colon is a syntax error.
nsname(written) ==
    LET i == Index(written, ":")
    IN  IF Count(written, ":") > 1 THEN [ok |-> FALSE, Space |-> "", Local |-> ""]
        ELSE IF i = -1 \/ i = 0 \/ i = Len(written) - 1
        THEN [ok |-> TRUE, Space |-> "", Local |-> written]
        ELSE [ok |-> TRUE, Space |-> Upto(written, i), Local |-> From(written, i + 1)]

\* The Decoder's bindings inside an element: those in scope outside it,
\* overridden by the element's own xmlns attributes in the order written.
RECURSIVE pushNs(_, _)
pushNs(ns, attrs) ==
    IF attrs = <<>> THEN ns
    ELSE LET n == nsname(Head(attrs).name)
         IN  pushNs(IF n.Space = "xmlns" THEN (n.Local :> Head(attrs).value) @@ ns
                    ELSE IF n.Space = "" /\ n.Local = "xmlns"
                    THEN ("" :> Head(attrs).value) @@ ns
                    ELSE ns,
                    Tail(attrs))

\* The Decoder's translate: the space of a name becomes the URI bound to it;
\* an unbound prefix stays as written, and an attribute without a prefix is
\* in no namespace.
translate(n, isElementName, ns) ==
    IF n.Space = "xmlns" THEN [Space |-> n.Space, Local |-> n.Local]
    ELSE IF n.Space = "" /\ ~isElementName THEN [Space |-> n.Space, Local |-> n.Local]
    ELSE IF n.Space = "" /\ n.Local = "xmlns" THEN [Space |-> n.Space, Local |-> n.Local]
    ELSE IF n.Space \in DOMAIN ns THEN [Space |-> ns[n.Space], Local |-> n.Local]
    ELSE [Space |-> n.Space, Local |-> n.Local]

\* The bytes the Decoder reads as part of a name (those of them that occur
\* in the model's strings).
NameBytes == "0123456789:ABCDEFGHIJKLMNOPQRSTUVWXYZabcdefghijklmnopqrstuvwxyz"

isName(written) ==
    /\ written # ""
    /\ \A i \in 1..Len(written) : Contains(NameBytes, SubSeq(written, i, i))

\* Whether the Decoder accepts the names of a start tag.
namesOk(tag) ==
    /\ isName(tag.name) /\ nsname(tag.name).ok
    /\ \A i \in 1..Len(tag.attrs) :
          isName(tag.attrs[i].name) /\ nsname(tag.attrs[i].name).ok

\* The encoder's EscapeText and the Decoder's reading of character
\* references, for the characters & < >.
RECURSIVE EscapeText(_)
EscapeText(str) ==
    IF str = "" THEN ""
    ELSE LET c == SubSeq(str, 1, 1)
         IN  (IF c = "&" THEN "&amp;" ELSE IF c = "<" THEN "&lt;"
              ELSE IF c = ">" THEN "&gt;" ELSE c) \o EscapeText(From(str, 1))

RECURSIVE Unescape(_)
Unescape(str) ==
    IF str = "" THEN ""
    ELSE IF HasPrefix(str, "&amp;") THEN "&" \o Unescape(From(str, 5))
    ELSE IF HasPrefix(str, "&lt;") THEN "<" \o Unescape(From(str, 4))
    ELSE IF HasPrefix(str, "&gt;") THEN ">" \o Unescape(From(str, 4))
    ELSE SubSeq(str, 1, 1) \o Unescape(From(str, 1))

\* The xml.StartElement the Decoder delivers for a start tag read while the
\* bindings ns are in scope.
decodeStart(tag, ns) ==
    LET inner == pushNs(ns, tag.attrs)
    IN  [Name |-> translate(nsname(tag.name), TRUE, inner),
         Attr |-> [i \in 1..Len(tag.attrs) |->
                      [Name  |-> translate(nsname(tag.attrs[i].name), FALSE, inner),
                       Value |-> Unescape(tag.attrs[i].value)]]]

-----------------------------------------------------------------------------
(* ParseToMap's helpers                                                    *)

\* The value transforms a caller may supply, by name.
Lower == "abcdefghijklmnopqrstuvwxyz"
Upper == "ABCDEFGHIJKLMNOPQRSTUVWXYZ"

upperOf ==
    [c \in {SubSeq(Lower, i, i) : i \in 1..Len(Lower)} |->
        SubSeq(Upper, Index(Lower, c) + 1, Index(Lower, c) + 1)]

RECURSIVE ToUpper(_)
ToUpper(str) ==
    IF str = "" THEN ""
    ELSE LET c == SubSeq(str, 1, 1)
         IN  (IF c \in DOMAIN upperOf THEN upperOf[c] ELSE c) \o ToUpper(From(str, 1))

\* "upper" is strings.ToUpper; "suffix" appends a "v".
applyTransform(name, str) ==
    IF name = "upper" THEN ToUpper(str) ELSE str \o "v"

\* options.ValueTransform as WithValueTransform chains it: the transforms in
\* the order supplied, each applied to the result of the one before it.
RECURSIVE ValueTransform(_, _)
ValueTransform(chain, str) ==
    IF chain = <<>> THEN str
    ELSE ValueTransform(Tail(chain), applyTransform(Head(chain), str))

DefaultParseOptions == [IncludeNamespaces |-> TRUE, ValueTransform |-> <<>>]

\* The options a caller may pass, each as the call that made it.
WithNamespaces(include) ==
    [option |-> "WithNamespaces", include |-> include, transform |-> ""]
WithValueTransform(transform) ==
    [option |-> "WithValueTransform", include |-> FALSE, transform |-> transform]

\* A chain in which the transform supplied later is applied first.
chainTransforms_PrevLast(prevTransform, transform) == <<transform>> \o prevTransform

\* The function WithValueTransform stores when one is stored already:
\* transform(prevTransform(s)). A nil ValueTransform is the empty chain.
chainTransforms(prevTransform, transform) == Append(prevTransform, transform)

\* opt(options) for one option.
applyOption(opt, o) ==
    IF opt.option = "WithNamespaces" THEN [o EXCEPT !.IncludeNamespaces = opt.include]
    ELSE [o EXCEPT !.ValueTransform = chainTransforms(@, opt.transform)]

\* The loop over opts at the head of ParseToMap.
RECURSIVE applyOptions(_, _)
applyOptions(list, o) ==
    IF list = <<>> THEN o ELSE applyOptions(Tail(list), applyOption(Head(list), o))

\* processNamespaces: the namespaces map after the attributes of one element.
RECURSIVE processNamespaces(_, _)
processNamespaces(attrs, nsMap) ==
    IF attrs = <<>> THEN nsMap
    ELSE LET attr == Head(attrs)
         IN  processNamespaces(Tail(attrs),
                 IF attr.Name.Space = "xmlns" \/ attr.Name.Local = "xmlns"
                 THEN ((IF attr.Name.Local = "xmlns" THEN "" ELSE attr.Name.Local)
                          :> attr.Value) @@ nsMap
                 ELSE nsMap)

\* A name that is qualified whatever includeNamespaces says.
buildElementName_IgnoresOption(elementName, space, nsMap, includeNamespaces) ==
    IF space = "" THEN {elementName}
    ELSE LET found == {q \in DOMAIN nsMap : nsMap[q] = space}
         IN  IF found = {} THEN {space \o ":" \o elementName}
             ELSE {(IF q # "" THEN q ELSE space) \o ":" \o elementName : q \in found}

\* buildElementName: the names it may return.  The prefix is that of the
\* first entry of the namespaces map, in map iteration order, whose URI is space;
\* when that prefix is empty, or there is none, the URI itself is written.
buildElementName(elementName, space, nsMap, includeNamespaces) ==
    IF ~includeNamespaces \/ space = "" THEN {elementName}
    ELSE LET found == {q \in DOMAIN nsMap : nsMap[q] = space}
         IN  IF found = {} THEN {space \o ":" \o elementName}
             ELSE {(IF q # "" THEN q ELSE space) \o ":" \o elementName : q \in found}

buildPath(current, elementName) ==
    IF current = "" THEN "/" \o elementName ELSE current \o "/" \o elementName

\* updateElementIndices: keysToUpdate (old key to new key) and the new path.
updateElementIndices(basePath, count, res) ==
    LET basePathPrefix     == basePath \o "/"
        basePathAttrPrefix == basePath \o "/@"
        old == IF count = 2
               THEN {k \in DOMAIN res :
                        \/ k = basePath
                        \/ HasPrefix(k, basePathPrefix)
                        \/ HasPrefix(k, basePathAttrPrefix)}
               ELSE {}
    IN  [keysToUpdate |->
            [k \in old |->
                basePath \o "[1]" \o
                    (IF HasPrefix(k, basePathPrefix) THEN From(k, Len(basePath))
                     ELSE IF HasPrefix(k, basePathAttrPrefix) THEN From(k, Len(basePath))
                     ELSE "")],
         newPath |-> basePath \o "[" \o Sprint(count) \o "]"]

\* The loop that applies keysToUpdate: each old key is deleted and its value
\* stored under the new key, in map iteration order.
RECURSIVE applyUpdates(_, _, _)
applyUpdates(res, keysToUpdate, order) ==
    IF order = <<>> THEN res
    ELSE LET oldKey  == Head(order)
             newKey  == keysToUpdate[oldKey]
             v       == IF oldKey \in DOMAIN res THEN res[oldKey] ELSE ""
             deleted == [k \in DOMAIN res \ {oldKey} |-> res[k]]
         IN  applyUpdates((newKey :> v) @@ deleted, keysToUpdate, Tail(order))

\* A processAttribute that does not skip namespace declarations.
processAttribute_KeepsDeclarations(attr, path, nsMap, parseOptions) ==
    {[attrPath |-> path \o "/@" \o attrName,
      value    |-> ValueTransform(parseOptions.ValueTransform, attr.Value)] :
        attrName \in (IF parseOptions.IncludeNamespaces /\ attr.Name.Space # ""
                      THEN buildElementName(attr.Name.Local, attr.Name.Space,
                                            nsMap, TRUE)
                      ELSE {attr.Name.Local})}

\* processAttribute: the (attrPath, value) pairs it may return; attrPath is
\* "" for a namespace declaration.
processAttribute(attr, path, nsMap, parseOptions) ==
    IF attr.Name.Space = "xmlns" \/ attr.Name.Local = "xmlns"
    THEN {[attrPath |-> "", value |-> ""]}
    ELSE {[attrPath |-> path \o "/@" \o attrName,
           value    |-> ValueTransform(parseOptions.ValueTransform, attr.Value)] :
             attrName \in (IF parseOptions.IncludeNamespaces /\ attr.Name.Space # ""
                           THEN buildElementName(attr.Name.Local, attr.Name.Space,
                                                 nsMap, TRUE)
                           ELSE {attr.Name.Local})}

\* The loop over the attributes of a start element: the maps it may leave.
RECURSIVE processAttributes(_, _, _, _, _)
processAttributes(attrs, path, nsMap, parseOptions, res) ==
    IF attrs = <<>> THEN {res}
    ELSE UNION {processAttributes(Tail(attrs), path, nsMap, parseOptions,
                    IF pa.attrPath # "" THEN (pa.attrPath :> pa.value) @@ res ELSE res) :
                  pa \in processAttribute(Head(attrs), path, nsMap, parseOptions)}

-----------------------------------------------------------------------------
(* comparePaths and the sorts that use it                                  *)

\* comparePaths' specialElements.
specialElements ==
    [Header |-> 1, Body |-> 2, Username |-> 1, Token |-> 2, child |-> 1, another |-> 2]

\* getElementRank: the ranks it may return.  An exact match decides; failing
\* that, the first well-known name met in map iteration order that the part
\* contains, so any contained name may be the one that decides.
getElementRank(part) ==
    IF part \in DOMAIN specialElements THEN {specialElements[part]}
    ELSE LET contained == {name \in DOMAIN specialElements : Contains(part, name)}
         IN  IF contained = {} THEN {0}
             ELSE {specialElements[name] : name \in contained}

\* The decision of comparePaths at the first differing pair of segments.
compareParts(partI, partJ) ==
    {IF rankI > 0 /\ rankJ > 0 THEN rankI < rankJ ELSE StrLess(partI, partJ) :
        rankI \in getElementRank(partI), rankJ \in getElementRank(partJ)}

\* comparePaths(pathI, pathJ): the answers it may give.
comparePaths(pathI, pathJ) ==
    LET partsI == Split(pathI, "/")
        partsJ == Split(pathJ, "/")
        differing == {k \in 1..Len(partsI) : partsI[k] # partsJ[k]}
    IN  IF Len(partsI) # Len(partsJ) THEN {Len(partsI) < Len(partsJ)}
        ELSE IF differing # {}
        THEN LET k == CHOOSE i \in differing : \A j \in differing : i <= j
             IN  compareParts(partsI[k], partsJ[k])
        ELSE {StrLess(pathI, pathJ)}

\* sort.Slice on a slice of at most 12 elements is an insertion sort: each
\* element in turn moves left while less(it, its left neighbour).  key[x]
\* is the path an element x is compared by.
RECURSIVE insertLeft(_, _, _)
insertLeft(sorted, x, key) ==
    IF sorted = <<>> THEN {<<x>>}
    ELSE LET n    == Len(sorted)
             left == sorted[n]
         IN  UNION {IF less
                    THEN {s \o <<left>> : s \in insertLeft(SubSeq(sorted, 1, n - 1), x, key)}
                    ELSE {sorted \o <<x>>} :
                        less \in comparePaths(key[x], key[left])}

RECURSIVE insertionSortFrom(_, _, _)
insertionSortFrom(sorted, rest, key) ==
    IF rest = <<>> THEN {sorted}
    ELSE UNION {insertionSortFrom(s, Tail(rest), key) :
                    s \in insertLeft(sorted, Head(rest), key)}

sortSlice(slice, key) == insertionSortFrom(<<>>, slice, key)

\* The orders in which a range loop may visit a set of keys.
RangeOrders(keys) ==
    {order \in [1..Cardinality(keys) -> keys] :
        \A i, j \in 1..Cardinality(keys) : i # j => order[i] # order[j]}

-----------------------------------------------------------------------------
(* The tree behind ToXML                                                   *)

\* An xmlNode without children and attributes.
xmlNode(path, name, value, isAttr, attrName, depth) ==
    [path |-> path, name |-> name, value |-> value, isAttr |-> isAttr,
     attrName |-> attrName, children |-> <<>>, attributes |-> <<>>,
     depth |-> depth]

\* strings.Join of parts[from..to] (1-based, inclusive) with "/".
RECURSIVE JoinParts(_, _, _)
JoinParts(parts, from, to) ==
    IF from > to THEN ""
    ELSE IF from = to THEN parts[from]
    ELSE parts[from] \o "/" \o JoinParts(parts, from + 1, to)

\* parsePath: isAttr, parentPath, nodeName, attrName of a split path.
parsePath(parts) ==
    LET n        == Len(parts)
        last     == parts[n]
        isAttr   == HasPrefix(last, "@")
        nodeName == IF isAttr /\ n >= 3 THEN parts[n - 1] ELSE last
    IN  [isAttr     |-> isAttr,
         parentPath |-> JoinParts(parts, 1, n - 1),
         nodeName   |-> StripIndex(nodeName),
         attrName   |-> IF isAttr THEN TrimPrefix(last, "@") ELSE ""]

\* createParentNodes from Go index i on: t holds nodes and nodeMap; the
\* result holds them after the loop and the node returned.
RECURSIVE createParentNodesFrom(_, _, _, _, _)
createParentNodesFrom(parts, i, t, curPath, currentNode) ==
    IF ~(i < Len(parts) - 1) THEN [t |-> t, node |-> currentNode]
    ELSE LET part == StripIndex(parts[i + 1])
             path == IF i = 1 THEN "/" \o part ELSE curPath \o "/" \o part
         IN  IF path \in DOMAIN t.nodeMap
             THEN createParentNodesFrom(parts, i + 1, t, path, t.nodeMap[path])
             ELSE LET newNode == Len(t.nodes) + 1
                      made    == Append(t.nodes,
                                        xmlNode(path, part, "", FALSE, "", Count(path, "/")))
                      linked  == IF currentNode # 0
                                 THEN [made EXCEPT ![currentNode].children = Append(@, newNode)]
                                 ELSE made
                  IN  createParentNodesFrom(parts, i + 1,
                          [nodes |-> linked, nodeMap |-> (path :> newNode) @@ t.nodeMap],
                          path, newNode)

createParentNodes(parts, t) == createParentNodesFrom(parts, 1, t, "", 0)

addAttributeNode(t, parent, path, nodeName, attrName, value) ==
    LET attr == Len(t.nodes) + 1
        made == Append(t.nodes, xmlNode(path, nodeName, value, TRUE, attrName, 0))
    IN  [nodes   |-> [made EXCEPT ![parent].attributes = Append(@, attr)],
         nodeMap |-> t.nodeMap]

addElementNode(t, parent, path, nodeName, value) ==
    LET node == Len(t.nodes) + 1
        made == Append(t.nodes, xmlNode(path, nodeName, value, FALSE, "", Count(path, "/")))
    IN  [nodes   |-> [made EXCEPT ![parent].children = Append(@, node)],
         nodeMap |-> (path :> node) @@ t.nodeMap]

\* processSinglePath: nodes and nodeMap after the path is added.
processSinglePath(path, map, t) ==
    LET parts == Split(path, "/")
    IN  IF Len(parts) < 2 THEN t
        ELSE LET p     == parsePath(parts)
                 found == IF p.parentPath \in DOMAIN t.nodeMap
                          THEN [t |-> t, node |-> t.nodeMap[p.parentPath]]
                          ELSE createParentNodes(parts, t)
             IN  IF found.node = 0 THEN found.t
                 ELSE IF p.isAttr
                 THEN addAttributeNode(found.t, found.node, path, p.nodeName,
                                       p.attrName, map[path])
                 ELSE addElementNode(found.t, found.node, path, p.nodeName, map[path])

-----------------------------------------------------------------------------
(* ToXML as a state machine                                                *)

\* Bound of the maps ToXML is called on.
MaxTreeEntries == 3

\* The keys and the value of those maps: a root, indexed siblings with and
\* without an entry of their own, children and attributes of indexed
\* siblings, siblings with a one-digit and a two-digit index, and keys that
\* do not begin with "/", with and without a "/" further on.
TreeKeys ==
    {"/r", "/r/a[1]", "/r/a[2]", "/r/a[10]", "/r/i[1]", "/r/i[2]",
     "/r/i[1]/n", "/r/i[2]/n", "/r/i[1]/@t", "/r/i[2]/@t", "nopath", "x/y"}
TreeValues == {"v"}

TreeMaps ==
    UNION {[S -> TreeValues] :
             S \in {T \in SUBSET TreeKeys : Cardinality(T) <= MaxTreeEntries}}

\* ToXML returns err; nothing reaches the writer.
ToXMLFail(err) ==
    /\ tpc' = "error"
    /\ terr' = err
    /\ UNCHANGED <<xmap, rootPath, paths, nodes, nodeMap, wstack, output>>

\* ToXML up to the end of the sort in buildXMLTree: the checks, the choice
\* of the root from the first key the range loop meets that has a root
\* segment, the root node, and the sorted list of the other paths.
ToXMLStart ==
    /\ tpc = "start"
    /\ IF Len0(xmap) = 0 THEN ToXMLFail("empty XMLMap")
       ELSE LET rooted == {k \in DOMAIN xmap : Len(Split(k, "/")) > 1}
            IN  IF rooted = {} THEN ToXMLFail("no root element found")
                ELSE \E first \in rooted :
                       LET root == "/" \o Split(first, "/")[2]
                           value == IF root \in DOMAIN xmap THEN xmap[root] ELSE ""
                       IN  \E order \in RangeOrders(DOMAIN xmap \ {root}) :
                             \E sorted \in sortSlice(order, [k \in DOMAIN xmap |-> k]) :
                               /\ rootPath' = root
                               /\ nodes' = <<xmlNode(root, TrimPrefix(root, "/"),
                                                     value, FALSE, "", 1)>>
                               /\ nodeMap' = (root :> 1)
                               /\ paths' = sorted
                               /\ tpc' = IF sorted = <<>> THEN "write" ELSE "build"
                               /\ UNCHANGED <<xmap, wstack, output, terr>>
    /\ UNCHANGED <<diffVars, poolVars, sortVars, parseVars, round>>

\* One turn of buildXMLTree's loop over the sorted paths.
ProcessPath ==
    /\ tpc = "build"
    /\ paths # <<>>
    /\ LET t == processSinglePath(Head(paths), xmap, [nodes |-> nodes, nodeMap |-> nodeMap])
       IN  /\ nodes' = t.nodes
           /\ nodeMap' = t.nodeMap
    /\ paths' = Tail(paths)
    /\ tpc' = IF Tail(paths) = <<>> THEN "write" ELSE "build"
    /\ UNCHANGED <<xmap, rootPath, wstack, output, terr>>
    /\ UNCHANGED <<diffVars, poolVars, sortVars, parseVars, round>>

\* The name writeXMLNode gives the start element: prefix and local part are
\* split at the first colon and joined again.
startName(name) ==
    LET idx    == Index(name, ":")
        prefix == IF idx # -1 THEN Upto(name, idx) ELSE ""
        local  == IF idx # -1 THEN From(name, idx + 1) ELSE name
    IN  IF prefix # "" THEN prefix \o ":" \o local ELSE local

\* start.Attr of a node.
startAttrs(node) ==
    [i \in 1..Len(nodes[node].attributes) |->
        [name  |-> startName(nodes[nodes[node].attributes[i]].attrName),
         value |-> nodes[nodes[node].attributes[i]].value]]

\* The node writeXMLNode is called on next: the root, or the next child of
\* the innermost active call.
NextToWrite ==
    IF wstack = <<>> THEN (IF output = <<>> THEN {1} ELSE {})
    ELSE LET top == wstack[Len(wstack)]
         IN  IF top.rest = <<>> THEN {} ELSE {Head(top.rest)}

\* writeXMLNode from its entry to the loop over the children: the start
\* element with its attributes, the value, and the sort of the children.
writeXMLNodeEnter ==
    /\ tpc = "write"
    /\ \E node \in NextToWrite :
         LET name     == startName(nodes[node].name)
             value    == nodes[node].value
             children == nodes[node].children
             popped   == IF wstack = <<>> THEN wstack
                         ELSE [wstack EXCEPT ![Len(wstack)].rest = Tail(@)]
         IN  IF name = ""
             THEN ToXMLFail("xml: start tag with no name")
             ELSE \E sorted \in (IF Len(children) > 1
                                 THEN sortSlice(children,
                                                [c \in 1..Len(nodes) |-> nodes[c].path])
                                 ELSE {children}) :
                    /\ output' = output \o <<StartToken(name, startAttrs(node))>>
                                        \o (IF value # "" THEN <<TextToken(value)>> ELSE <<>>)
                    /\ nodes' = [nodes EXCEPT ![node].children = sorted]
                    /\ wstack' = Append(popped, [node |-> node, rest |-> sorted])
                    /\ UNCHANGED <<xmap, tpc, rootPath, paths, nodeMap, terr>>
    /\ UNCHANGED <<diffVars, poolVars, sortVars, parseVars, round>>

\* writeXMLNode after the loop over the children: the end element; when the
\* call on the root returns, ToXML flushes and writes the output.
writeXMLNodeReturn ==
    /\ tpc = "write"
    /\ wstack # <<>>
    /\ wstack[Len(wstack)].rest = <<>>
    /\ output' = output \o <<EndToken(startName(nodes[wstack[Len(wstack)].node].name))>>
    /\ wstack' = SubSeq(wstack, 1, Len(wstack) - 1)
    /\ tpc' = IF Len(wstack) = 1 THEN "done" ELSE "write"
    /\ UNCHANGED <<xmap, rootPath, paths, nodes, nodeMap, terr>>
    /\ UNCHANGED <<diffVars, poolVars, sortVars, parseVars, round>>

InitTree ==
    /\ xmap \in TreeMaps
    /\ tpc = "start"
    /\ rootPath = "" /\ paths = <<>> /\ nodes = <<>> /\ nodeMap = <<>>
    /\ wstack = <<>> /\ output = <<>> /\ terr = ""
    /\ DiffIdle /\ ParseIdle /\ RoundIdle /\ PoolIdle /\ SortIdle

NextTree ==
    \/ ToXMLStart
    \/ ProcessPath
    \/ writeXMLNodeEnter
    \/ writeXMLNodeReturn

SpecTree == InitTree /\ [][NextTree]_vars

-----------------------------------------------------------------------------
(* ToXML called twice on one map, with well-known names among its keys     *)

\* Bound of the maps.
MaxOrderEntries == 3

\* The keys: a root, children whose names are well-known (Header, Username
\* and child of rank 1, Body and another of rank 2), a name that contains
\* two well-known names of different rank, a plain name, and a key under
\* another first segment.
OrderKeys ==
    {"/r", "/r/Header", "/r/Body", "/r/Username", "/r/UsernameToken", "/r/b", "/s/b",
     "/r/child", "/r/another"}

OrderMaps ==
    UNION {[S -> TreeValues] :
             S \in {T \in SUBSET OrderKeys : Cardinality(T) <= MaxOrderEntries}}

\* What a call of ToXML that has returned gave its caller: the tokens
\* written to w (none when it returns an error) and the error.
Returned == [written |-> IF tpc = "done" THEN output ELSE <<>>, err |-> terr]

\* The first call has returned; ToXML is called again on the same map.
ToXMLAgain ==
    /\ round # <<>>
    /\ round.stage = "first"
    /\ tpc \in {"done", "error"}
    /\ round' = [stage |-> "again", first |-> Returned]
    /\ tpc' = "start"
    /\ rootPath' = "" /\ paths' = <<>> /\ nodes' = <<>> /\ nodeMap' = <<>>
    /\ wstack' = <<>> /\ output' = <<>> /\ terr' = ""
    /\ UNCHANGED xmap
    /\ UNCHANGED <<diffVars, poolVars, sortVars, parseVars>>

InitOrder ==
    /\ xmap \in OrderMaps
    /\ tpc = "start"
    /\ rootPath = "" /\ paths = <<>> /\ nodes = <<>> /\ nodeMap = <<>>
    /\ wstack = <<>> /\ output = <<>> /\ terr = ""
    /\ round = [stage |-> "first", first |-> <<>>]
    /\ DiffIdle /\ ParseIdle /\ PoolIdle /\ SortIdle

NextOrder ==
    \/ ToXMLStart
    \/ ProcessPath
    \/ writeXMLNodeEnter
    \/ writeXMLNodeReturn
    \/ ToXMLAgain

SpecOrder == InitOrder /\ [][NextOrder]_vars

-----------------------------------------------------------------------------
(* comparePaths called on its own, as the less function of a sort          *)

\* Bound of the calls recorded.
MaxLessCalls == 3

\* The paths compared: the root, children with well-known names of rank 1
\* (Header, child) and of rank 2 (Body, another), a name that contains
\* well-known names of both ranks, a plain name, and a deeper path.
ComparedPaths ==
    {"/r", "/r/Header", "/r/Body", "/r/child", "/r/another", "/r/UsernameToken",
     "/r/b", "/r/b/c"}

\* less(i, j) is called on two of the paths and answers.
Less(pathI, pathJ) ==
    /\ Cardinality(lessCalls) < MaxLessCalls
    /\ \E less \in comparePaths(pathI, pathJ) :
          lessCalls' = lessCalls \cup {[pathI |-> pathI, pathJ |-> pathJ, less |-> less]}
    /\ UNCHANGED <<diffVars, treeVars, parseVars, round, poolVars>>

InitCompare ==
    /\ lessCalls = {}
    /\ DiffIdle /\ TreeIdle /\ ParseIdle /\ RoundIdle /\ PoolIdle

NextCompare == \E pathI, pathJ \in ComparedPaths : Less(pathI, pathJ)

SpecCompare == InitCompare /\ [][NextCompare]_vars

-----------------------------------------------------------------------------
(* ParseToMap as a state machine                                           *)

\* Bounds of the documents read: start tags, runs of text, attributes
\* (namespace declarations among them), and nesting depth.
MaxStarts == 4
MaxTexts == 2
MaxAttrs == 1
MaxDepth == 3

\* What the documents are written with.  Text is as written in the document,
\* so "&lt;" stands for the character "<".
RootNames == {"r"}
ChildNames == {"a", "p:b"}
Attrs ==
    {[name |-> "xmlns:p", value |-> "u"], [name |-> "xmlns", value |-> "a/x"],
     [name |-> "t", value |-> "v"], [name |-> "p:t", value |-> "w"]}
Texts == {"x", " &lt;", " "}

\* The option lists ParseToMap is called with.
OptionLists ==
    {<<>>,
     <<WithNamespaces(FALSE)>>,
     <<WithValueTransform("upper"), WithValueTransform("suffix")>>}

\* A reader over a document still to be written, within the bounds, and a
\* reader over a document already written.  With `pairs` a start tag of the
\* document may carry two attributes.
NewReaderOver(childNames, attrSet, starts, texts, attrs) ==
    [source |-> "any", rest |-> <<>>, childNames |-> childNames, attrSet |-> attrSet,
     pairs |-> FALSE, starts |-> starts, texts |-> texts, attrs |-> attrs]
NewReader(starts, texts, attrs) == NewReaderOver(ChildNames, Attrs, starts, texts, attrs)
ReaderOf(document) ==
    [source |-> "written", rest |-> document, childNames |-> {}, attrSet |-> {},
     pairs |-> FALSE, starts |-> 0, texts |-> 0, attrs |-> 0]

\* The start tags, the texts and whether an end tag may come next.
NextStartTags ==
    IF reader.source = "written"
    THEN (IF reader.rest # <<>> /\ Head(reader.rest).kind = "start"
          THEN {Head(reader.rest)} ELSE {})
    ELSE IF reader.starts = 0 \/ Len(dstack) >= MaxDepth THEN {}
    ELSE {StartToken(name, attrs) :
            name \in (IF dstack = <<>> THEN RootNames ELSE reader.childNames),
            attrs \in {<<>>} \cup (IF reader.attrs > 0 THEN {<<t>> : t \in reader.attrSet}
                                   ELSE {})
                          \cup (IF reader.pairs /\ reader.attrs > 1
                                THEN {<<t, u>> : t, u \in reader.attrSet} \ 
                                     {<<t, t>> : t \in reader.attrSet}
                                ELSE {})}

NextTexts ==
    IF reader.source = "written"
    THEN (IF reader.rest # <<>> /\ Head(reader.rest).kind = "text"
          THEN {Head(reader.rest).value} ELSE {})
    ELSE IF reader.texts = 0 THEN {} ELSE Texts

NextIsEnd ==
    IF reader.source = "written"
    THEN reader.rest # <<>> /\ Head(reader.rest).kind = "end"
    ELSE dstack # <<>>

AtEnd == IF reader.source = "written" THEN reader.rest = <<>> ELSE TRUE

\* The reader after a token is read from it.
Advance(tok) ==
    IF reader.source = "written" THEN [reader EXCEPT !.rest = Tail(@)]
    ELSE IF tok.kind = "start"
    THEN [reader EXCEPT !.starts = @ - 1, !.attrs = @ - Len(tok.attrs)]
    ELSE IF tok.kind = "text" THEN [reader EXCEPT !.texts = @ - 1]
    ELSE reader

\* The bindings in scope where the next token is read.
Scope == IF dstack = <<>> THEN <<>> ELSE dstack[Len(dstack)].ns

\* ParseToMap returns nil and err after decoder.Token() returned tokErr: its
\* locals and the Decoder are gone, and the reader is left where the Decoder
\* stopped reading, at rd.
ParseFail(err, tokErr, rd) ==
    /\ ppc' = "error"
    /\ perr' = err
    /\ tokenErr' = tokErr
    /\ result' = <<>> /\ pathStack' = <<>> /\ currentPath' = ""
    /\ elementCounts' = <<>> /\ namespaces' = <<>> /\ rootSeen' = FALSE
    /\ reader' = rd /\ dstack' = <<>> /\ doc' = <<>>
    /\ UNCHANGED <<opts, options>>

\* A check for multiple roots that never finds any.
multipleRoots_Unchecked == FALSE

\* "Check for multiple roots": a start element while no element is open and
\* a root has been seen.
multipleRoots == Len(pathStack) = 0 /\ rootSeen

\* The attributes of a start element that are not namespace declarations.
Attributes(attrs) ==
    {attrs[i] : i \in {j \in 1..Len(attrs) :
        ~(attrs[j].Name.Space = "xmlns" \/ attrs[j].Name.Local = "xmlns")}}

CountOf(basePath) ==
    IF basePath \in DOMAIN elementCounts THEN elementCounts[basePath] ELSE 0

\* case xml.StartElement
StartElement ==
    /\ ppc = "run"
    /\ \E tag \in NextStartTags :
         /\ namesOk(tag)
         /\ LET t == decodeStart(tag, Scope)
            IN  IF multipleRoots
                THEN ParseFail("XML syntax error: multiple root elements", "", Advance(tag))
                ELSE LET declared == processNamespaces(t.Attr, namespaces)
                     IN  \E elementName \in buildElementName(t.Name.Local, t.Name.Space,
                                                declared, options.IncludeNamespaces) :
                           LET basePath == buildPath(currentPath, elementName)
                               count    == CountOf(basePath) + 1
                               upd      == updateElementIndices(basePath, count, result)
                               newPath  == IF count > 1 THEN upd.newPath ELSE basePath
                           IN  \E order \in RangeOrders(DOMAIN upd.keysToUpdate) :
                                 \E stored \in processAttributes(t.Attr, newPath, declared, options,
                                                  IF count > 1
                                                  THEN applyUpdates(result, upd.keysToUpdate, order)
                                                  ELSE result) :
                                   /\ rootSeen' = TRUE
                                   /\ namespaces' = declared
                                   /\ elementCounts' = (basePath :> count) @@ elementCounts
                                   /\ result' = stored
                                   /\ currentPath' = newPath
                                   /\ pathStack' = Append(pathStack, newPath)
                                   /\ reader' = Advance(tag)
                                   /\ dstack' = Append(dstack,
                                                    [name |-> tag.name,
                                                     ns   |-> pushNs(Scope, tag.attrs),
                                                     elem |-> Len(doc) + 1])
                                   /\ doc' = Append(doc,
                                                [parent |-> IF dstack = <<>> THEN 0
                                                            ELSE dstack[Len(dstack)].elem,
                                                 name   |-> elementName,
                                                 written |-> tag.name,
                                                 local  |-> t.Name.Local,
                                                 resolved |-> buildElementName(
                                                     t.Name.Local, t.Name.Space,
                                                     declared, options.IncludeNamespaces),
                                                 scoped |-> buildElementName(
                                                     t.Name.Local, t.Name.Space,
                                                     pushNs(Scope, tag.attrs), TRUE),
                                                 attrs  |-> Attributes(t.Attr),
                                                 text   |-> ""])
                                   /\ UNCHANGED <<opts, options, ppc, perr, tokenErr>>
    /\ UNCHANGED <<diffVars, poolVars, sortVars, treeVars, round>>

\* case xml.EndElement
EndElement ==
    /\ ppc = "run"
    /\ NextIsEnd
    /\ IF Len(pathStack) > 0
       THEN /\ pathStack' = SubSeq(pathStack, 1, Len(pathStack) - 1)
            /\ currentPath' = IF Len(pathStack) > 1 THEN pathStack[Len(pathStack) - 1] ELSE ""
       ELSE UNCHANGED <<pathStack, currentPath>>
    /\ reader' = Advance(EndToken(""))
    /\ dstack' = SubSeq(dstack, 1, Len(dstack) - 1)
    /\ UNCHANGED <<opts, options, result, elementCounts, namespaces, rootSeen, ppc, perr,
                   tokenErr, doc>>
    /\ UNCHANGED <<diffVars, poolVars, sortVars, treeVars, round>>

\* case xml.CharData
CharData ==
    /\ ppc = "run"
    /\ \E written \in NextTexts :
         LET value == TrimSpace(Unescape(written))
         IN  /\ result' = IF Len(value) > 0
                          THEN (currentPath :> ValueTransform(options.ValueTransform, value))
                                   @@ result
                          ELSE result
             /\ reader' = Advance(TextToken(written))
             /\ doc' = IF Len(value) > 0 /\ dstack # <<>>
                       THEN [doc EXCEPT ![dstack[Len(dstack)].elem].text = value]
                       ELSE doc
    /\ UNCHANGED <<opts, options, pathStack, currentPath, elementCounts, namespaces,
                   rootSeen, ppc, perr, tokenErr, dstack>>
    /\ UNCHANGED <<diffVars, poolVars, sortVars, treeVars, round>>

\* decoder.Token() returns io.EOF: the loop is left, and ParseToMap returns.
EndOfInput ==
    /\ ppc = "run"
    /\ AtEnd
    /\ dstack = <<>>
    /\ IF Len0(result) = 0 THEN ParseFail("EOF", "EOF", reader)
       ELSE /\ ppc' = "done"
            /\ tokenErr' = "EOF"
            /\ UNCHANGED <<opts, options, result, pathStack, currentPath, elementCounts,
                           namespaces, rootSeen, perr, reader, dstack, doc>>
    /\ UNCHANGED <<diffVars, poolVars, sortVars, treeVars, round>>

\* A loop that is left on every error of decoder.Token(), as it is on
\* io.EOF, instead of returning the error.
TokenError_LeavesLoop ==
    /\ ppc = "run"
    /\ \E err \in {"XML syntax error: unexpected EOF", "XML syntax error"} :
          /\ IF err = "XML syntax error" THEN reader.source = "any"
             ELSE AtEnd /\ dstack # <<>>
          /\ IF Len0(result) = 0 THEN ParseFail("EOF", err, reader)
             ELSE /\ ppc' = "done"
                  /\ tokenErr' = err
                  /\ UNCHANGED <<opts, options, result, pathStack, currentPath, elementCounts,
                                 namespaces, rootSeen, perr, reader, dstack, doc>>
    /\ UNCHANGED <<diffVars, poolVars, sortVars, treeVars, round>>

\* decoder.Token() returns an error other than io.EOF: the document ends
\* inside an element, or what comes next is not well-formed.
TokenError ==
    /\ ppc = "run"
    /\ \/ /\ AtEnd
          /\ dstack # <<>>
          /\ ParseFail("XML syntax error: unexpected EOF",
                       "XML syntax error: unexpected EOF", reader)
       \/ /\ \/ reader.source = "any"
             \/ \E tag \in NextStartTags : ~namesOk(tag)
          /\ ParseFail("XML syntax error", "XML syntax error", reader)
    /\ UNCHANGED <<diffVars, poolVars, sortVars, treeVars, round>>

\* ParseToMap before its loop, called with the options `given` on the
\* reader `r`.
ParseBegins(given, r) ==
    /\ opts = given
    /\ options = applyOptions(given, DefaultParseOptions)
    /\ result = <<>> /\ pathStack = <<>> /\ currentPath = ""
    /\ elementCounts = <<>> /\ namespaces = <<>> /\ rootSeen = FALSE
    /\ ppc = "run" /\ perr = "" /\ tokenErr = ""
    /\ reader = r /\ dstack = <<>> /\ doc = <<>>

Init ==
    /\ \E given \in OptionLists :
          ParseBegins(given, NewReader(MaxStarts, MaxTexts, MaxAttrs))
    /\ DiffIdle /\ TreeIdle /\ RoundIdle /\ PoolIdle /\ SortIdle

Next ==
    \/ StartElement
    \/ EndElement
    \/ CharData
    \/ EndOfInput
    \/ TokenError

Spec == Init /\ [][Next]_vars

-----------------------------------------------------------------------------
(* ParseToMap on short documents, with every way of supplying the options  *)

ShortStarts == 2
ShortTexts == 2
ShortAttrs == 1

\* No option, each option alone, and two value transforms in either order,
\* with and without WithNamespaces(false).
ShortOptionLists ==
    {<<>>, <<WithNamespaces(FALSE)>>, <<WithNamespaces(TRUE)>>,
     <<WithValueTransform("upper")>>, <<WithValueTransform("suffix")>>,
     <<WithValueTransform("upper"), WithValueTransform("suffix")>>,
     <<WithValueTransform("suffix"), WithValueTransform("upper")>>,
     <<WithValueTransform("suffix"), WithNamespaces(FALSE), WithValueTransform("upper")>>}

InitShort ==
    /\ \E given \in ShortOptionLists :
          ParseBegins(given, NewReader(ShortStarts, ShortTexts, ShortAttrs))
    /\ DiffIdle /\ TreeIdle /\ RoundIdle /\ PoolIdle /\ SortIdle

SpecShort == InitShort /\ [][Next]_vars

-----------------------------------------------------------------------------
(* ParseToMap on documents that declare namespaces                         *)

NsStarts == 3
NsTexts == 1
NsAttrs == 2

\* Elements with and without a prefix; declarations that bind the prefix p
\* to two URIs, the prefix q and the default namespace to one of them; a
\* prefixed attribute.
NsChildNames == {"a", "b", "p:b"}
NsAttrSet ==
    {[name |-> "xmlns:p", value |-> "u"], [name |-> "xmlns:p", value |-> "w"],
     [name |-> "xmlns:q", value |-> "u"],
     [name |-> "xmlns", value |-> "u"], [name |-> "p:t", value |-> "v"]}

InitNs ==
    /\ \E given \in {<<>>, <<WithNamespaces(FALSE)>>} :
          ParseBegins(given, NewReaderOver(NsChildNames, NsAttrSet,
                                           NsStarts, NsTexts, NsAttrs))
    /\ DiffIdle /\ TreeIdle /\ RoundIdle /\ PoolIdle /\ SortIdle

SpecNs == InitNs /\ [][Next]_vars

-----------------------------------------------------------------------------
(* ParseToMap on documents with a default namespace whose URI has a "/"    *)

SlashStarts == 4
SlashTexts == 1
SlashAttrs == 2

\* Children of one local name, with or without the prefix x; the
\* declarations of the default namespace "a/x" and of the prefix x; and an
\* attribute.
SlashChildNames == {"a", "x:a"}
SlashAttrSet ==
    {[name |-> "xmlns", value |-> "a/x"], [name |-> "xmlns:x", value |-> "u"],
     [name |-> "t", value |-> "v"]}

\* A start tag may carry the declaration and the attribute together.
InitSlash ==
    /\ ParseBegins(<<>>, [NewReaderOver(SlashChildNames, SlashAttrSet,
                                        SlashStarts, SlashTexts, SlashAttrs)
                             EXCEPT !.pairs = TRUE])
    /\ DiffIdle /\ TreeIdle /\ RoundIdle /\ PoolIdle /\ SortIdle

SpecSlash == InitSlash /\ [][Next]_vars

-----------------------------------------------------------------------------
(* A round trip: ParseToMap, ToXML, and ParseToMap on the output           *)

\* Bounds of the documents a round trip starts from.
RoundStarts == 3
RoundTexts == 1
RoundAttrs == 2

\* What the encoder writes for the tokens it was given: names as they are,
\* text and attribute values escaped.
Written(tokens) ==
    [i \in 1..Len(tokens) |->
        [kind  |-> tokens[i].kind,
         name  |-> tokens[i].name,
         attrs |-> [j \in 1..Len(tokens[i].attrs) |->
                       [name  |-> tokens[i].attrs[j].name,
                        value |-> EscapeText(tokens[i].attrs[j].value)]],
         value |-> EscapeText(tokens[i].value)]]

\* ToXML is called on the map ParseToMap returned.
SerializeResult ==
    /\ round # <<>>
    /\ round.stage = "first"
    /\ ppc = "done"
    /\ xmap' = result
    /\ tpc' = "start"
    /\ round' = [stage |-> "toxml", first |-> result]
    /\ UNCHANGED <<rootPath, paths, nodes, nodeMap, wstack, output, terr>>
    /\ UNCHANGED <<diffVars, poolVars, sortVars, parseVars>>

\* ParseToMap is called, with the same options, on what ToXML wrote.
ParseOutput ==
    /\ round # <<>>
    /\ round.stage = "toxml"
    /\ tpc = "done"
    /\ result' = <<>> /\ pathStack' = <<>> /\ currentPath' = ""
    /\ elementCounts' = <<>> /\ namespaces' = <<>> /\ rootSeen' = FALSE
    /\ ppc' = "run" /\ perr' = "" /\ tokenErr' = "" /\ dstack' = <<>> /\ doc' = <<>>
    /\ reader' = ReaderOf(Written(output))
    /\ round' = [round EXCEPT !.stage = "second"]
    /\ UNCHANGED <<opts, options, diffVars, poolVars, sortVars, treeVars>>

InitRound ==
    /\ \E includeNamespaces \in BOOLEAN :
          ParseBegins(<<WithNamespaces(includeNamespaces)>>,
                      NewReader(RoundStarts, RoundTexts, RoundAttrs))
    /\ round = [stage |-> "first", first |-> <<>>]
    /\ DiffIdle /\ TreeIdle /\ PoolIdle /\ SortIdle

NextRound ==
    \/ StartElement
    \/ EndElement
    \/ CharData
    \/ EndOfInput
    \/ TokenError
    \/ SerializeResult
    \/ ToXMLStart
    \/ ProcessPath
    \/ writeXMLNodeEnter
    \/ writeXMLNodeReturn
    \/ ParseOutput

SpecRound == InitRound /\ [][NextRound]_vars

-----------------------------------------------------------------------------
(* pathBuilderPool and the calls that borrow from it concurrently          *)

\* Bounds: the goroutines, the builders the pool's New may allocate, the
\* uses of the builder in one call, and the WriteStrings of one use.
MaxGoroutines == 2
MaxBuilders == 3
MaxUses == 2
MaxWrites == 2

Goroutines == 1..MaxGoroutines

\* The calls that borrow a builder (ToXML does in buildXMLTree), and the
\* strings the helpers write.
PoolOps == {"ParseToMap", "ToXML", "DiffsIgnoreOrder"}
Pieces == {"/", "r"}

\* A goroutine that has made no call.
NoCall ==
    [op |-> "", pc |-> "idle", pathBuilder |-> 0, wrote |-> "", str |-> "",
     writes |-> 0, uses |-> 0, gets |-> 0, puts |-> 0, err |-> FALSE]

\* Goroutine g calls one of the three methods.
Call(g) ==
    /\ goroutines[g].pc = "idle"
    /\ \E op \in PoolOps :
          goroutines' = [goroutines EXCEPT ![g].op = op, ![g].pc = "called"]
    /\ UNCHANGED <<pathBuilderPool, builders>>
    /\ UNCHANGED <<diffVars, treeVars, parseVars, round, sortVars>>

\* ToXML returns "empty XMLMap" or "no root element found" before
\* buildXMLTree is called.
ReturnBeforeGet(g) ==
    /\ goroutines[g].pc = "called"
    /\ goroutines[g].op = "ToXML"
    /\ goroutines' = [goroutines EXCEPT ![g].pc = "returned", ![g].err = TRUE]
    /\ UNCHANGED <<pathBuilderPool, builders>>
    /\ UNCHANGED <<diffVars, treeVars, parseVars, round, sortVars>>

\* A getPathBuilder that hands out a builder of the pool and leaves it in
\* the pool.
getPathBuilder_LeavesInPool(g) ==
    /\ goroutines[g].pc = "called"
    /\ \E builder \in pathBuilderPool \cup
                       (IF Len(builders) < MaxBuilders THEN {Len(builders) + 1} ELSE {}) :
          /\ builders' = IF builder \in pathBuilderPool THEN builders
                         ELSE Append(builders, "")
          /\ goroutines' = [goroutines EXCEPT ![g].pathBuilder = builder,
                                              ![g].pc = "holding",
                                              ![g].gets = @ + 1]
    /\ UNCHANGED pathBuilderPool
    /\ UNCHANGED <<diffVars, treeVars, parseVars, round, sortVars>>

\* getPathBuilder: pathBuilderPool.Get() takes a builder out of the pool,
\* or has New allocate one (Get may do so whatever lies in the pool).
getPathBuilder(g) ==
    /\ goroutines[g].pc = "called"
    /\ \E builder \in pathBuilderPool \cup
                       (IF Len(builders) < MaxBuilders THEN {Len(builders) + 1} ELSE {}) :
          /\ pathBuilderPool' = pathBuilderPool \ {builder}
          /\ builders' = IF builder \in pathBuilderPool THEN builders
                         ELSE Append(builders, "")
          /\ goroutines' = [goroutines EXCEPT ![g].pathBuilder = builder,
                                              ![g].pc = "holding",
                                              ![g].gets = @ + 1]
    /\ UNCHANGED <<diffVars, treeVars, parseVars, round, sortVars>>

\* A helper (buildPath, extractBasePath, parsePath, ...) begins to use the
\* builder: pathBuilder.Reset().
Reset(g) ==
    /\ goroutines[g].pc = "holding"
    /\ goroutines[g].uses < MaxUses
    /\ builders' = [builders EXCEPT ![goroutines[g].pathBuilder] = ""]
    /\ goroutines' = [goroutines EXCEPT ![g].pc = "reset", ![g].wrote = "",
                                        ![g].writes = 0]
    /\ UNCHANGED pathBuilderPool
    /\ UNCHANGED <<diffVars, treeVars, parseVars, round, sortVars>>

\* pathBuilder.WriteString(piece)
WriteString(g) ==
    /\ goroutines[g].pc = "reset"
    /\ goroutines[g].writes < MaxWrites
    /\ \E piece \in Pieces :
          /\ builders' = [builders EXCEPT ![goroutines[g].pathBuilder] = @ \o piece]
          /\ goroutines' = [goroutines EXCEPT ![g].wrote = @ \o piece,
                                              ![g].writes = @ + 1]
    /\ UNCHANGED pathBuilderPool
    /\ UNCHANGED <<diffVars, treeVars, parseVars, round, sortVars>>

\* pathBuilder.String(): the helper returns what the builder holds.
String(g) ==
    /\ goroutines[g].pc = "reset"
    /\ goroutines[g].writes >= 1
    /\ goroutines' = [goroutines EXCEPT ![g].str = builders[goroutines[g].pathBuilder],
                                        ![g].uses = @ + 1,
                                        ![g].pc = "holding"]
    /\ UNCHANGED <<pathBuilderPool, builders>>
    /\ UNCHANGED <<diffVars, treeVars, parseVars, round, sortVars>>

\* The function that borrowed returns, with or without an error (an error
\* of decoder.Token(), multiple roots, an empty result); its deferred
\* putPathBuilder is still to run.
Return(g) ==
    /\ goroutines[g].pc = "holding"
    /\ \E err \in (IF goroutines[g].op = "ParseToMap" THEN BOOLEAN ELSE {FALSE}) :
          goroutines' = [goroutines EXCEPT ![g].pc = "deferred", ![g].err = err]
    /\ UNCHANGED <<pathBuilderPool, builders>>
    /\ UNCHANGED <<diffVars, treeVars, parseVars, round, sortVars>>

\* defer putPathBuilder(pathBuilder): b.Reset() and pathBuilderPool.Put(b).
putPathBuilder(g) ==
    /\ goroutines[g].pc = "deferred"
    /\ builders' = [builders EXCEPT ![goroutines[g].pathBuilder] = ""]
    /\ pathBuilderPool' = pathBuilderPool \cup {goroutines[g].pathBuilder}
    /\ goroutines' = [goroutines EXCEPT ![g].pathBuilder = 0, ![g].pc = "returned",
                                        ![g].puts = @ + 1]
    /\ UNCHANGED <<diffVars, treeVars, parseVars, round, sortVars>>

InitPool ==
    /\ pathBuilderPool = {}
    /\ builders = <<>>
    /\ goroutines = [g \in Goroutines |-> NoCall]
    /\ DiffIdle /\ TreeIdle /\ ParseIdle /\ RoundIdle /\ SortIdle

NextPool ==
    \/ \E g \in Goroutines : Call(g)
    \/ \E g \in Goroutines : ReturnBeforeGet(g)
    \/ \E g \in Goroutines : getPathBuilder(g)
    \/ \E g \in Goroutines : Reset(g)
    \/ \E g \in Goroutines : WriteString(g)
    \/ \E g \in Goroutines : String(g)
    \/ \E g \in Goroutines : Return(g)
    \/ \E g \in Goroutines : putPathBuilder(g)

SpecPool == InitPool /\ [][NextPool]_vars

-----------------------------------------------------------------------------
(* Claims about the comparison methods (checked under SpecDiff)            *)

\* The diffs a list holds, and whether it holds none twice.
Entries(list) == {list[i] : i \in DOMAIN list}
NoRepeats(list) == Cardinality(Entries(list)) = Len(list)

\* One entry per key on which m and other differ, as the claim C3 states it.
ExpectedDiffs(m, other) ==
    {Diff(k, m[k], "", DiffExtra) : k \in DOMAIN m \ DOMAIN other}
    \cup {Diff(k, "", other[k], DiffMissing) : k \in DOMAIN other \ DOMAIN m}
    \cup {Diff(k, m[k], other[k], DiffValue) :
            k \in {j \in DOMAIN m \cap DOMAIN other : m[j] # other[j]}}

\* C3: Diffs(a, b) contains exactly one entry per key on which the maps
\* differ and nothing else: DiffExtra for a key only in a, DiffMissing for a
\* key only in b, DiffValue for a key in both with different values - also
\* for maps with the same number of entries.
C3_DiffsExact ==
    \A c \in calls :
        c.op = "Diffs" =>
            /\ Entries(c.out) = ExpectedDiffs(Recv(c.recv), Arg(c.recv))
            /\ NoRepeats(c.out)

\* The keys of m with every [n] stripped, and how often value v occurs
\* among the keys of m that share base path g.
BasePaths(m) == {extractBasePath(k) : k \in DOMAIN m}
CountIn(m, g, v) ==
    Cardinality({k \in DOMAIN m : extractBasePath(k) = g /\ m[k] = v})

SameMultisets(m, other) ==
    /\ BasePaths(m) = BasePaths(other)
    /\ \A g \in BasePaths(m) : \A v \in DiffValues :
          CountIn(m, g, v) = CountIn(other, g, v)

\* C4: EqualIgnoreOrder(a, b) is true if and only if a and b have the same
\* base paths and, under every base path, the same multiset of values.
C4_MultisetEquality ==
    \A c \in calls :
        c.op = "EqualIgnoreOrder" =>
            (c.out <=> SameMultisets(Recv(c.recv), Arg(c.recv)))

SameEntries(m, other) ==
    /\ DOMAIN m = DOMAIN other
    /\ \A k \in DOMAIN m : m[k] = other[k]

\* C8: Equal(a, b) is true exactly when a and b have the same keys and the
\* same value at every key, which is exactly when Diffs(a, b) is empty;
\* Equal(m, m) is true and Diffs(m, m) is empty; Equal(a, b) = Equal(b, a).
C8_EqualExact ==
    \A c \in calls :
        /\ c.op = "Equal" => (c.out <=> SameEntries(Recv(c.recv), Arg(c.recv)))
        /\ c.op = "Diffs" => (c.out = <<>> <=> SameEntries(Recv(c.recv), Arg(c.recv)))
        /\ \A d \in calls :
              /\ (c.op = "Equal" /\ d.op = "Diffs" /\ c.recv = d.recv)
                    => (c.out <=> d.out = <<>>)
              /\ (c.op = "Equal" /\ d.op = "Equal") => c.out = d.out

\* C8's case: Equal was called in both directions on two maps of the same
\* size that differ in a key, and Diffs was called on a map and itself.
C8_Witness ==
    /\ \E c, d \in calls :
          c.op = "Equal" /\ d.op = "Equal" /\ c.recv # d.recv /\ ~c.out
    /\ Len0(a) = Len0(b)
    /\ DOMAIN a # DOMAIN b

\* C9: EqualIgnoreOrder is reflexive and symmetric, whether or not the maps
\* have the same number of base paths, and Equal(a, b) implies
\* EqualIgnoreOrder(a, b).
C9_IgnoreOrderRelation ==
    \A c \in calls :
        /\ (c.op = "EqualIgnoreOrder" /\ a = b) => c.out
        /\ \A d \in calls :
              /\ (c.op = "EqualIgnoreOrder" /\ d.op = "EqualIgnoreOrder")
                    => c.out = d.out
              /\ (c.op = "Equal" /\ d.op = "EqualIgnoreOrder" /\ c.out) => d.out

\* C9's case: EqualIgnoreOrder was called in both directions on maps with
\* the same number of base paths whose value sets include one another only
\* in one direction.
C9_Witness ==
    /\ \E c, d \in calls :
          c.op = "EqualIgnoreOrder" /\ d.op = "EqualIgnoreOrder" /\ c.recv # d.recv
    /\ Cardinality(BasePaths(a)) = Cardinality(BasePaths(b))
    /\ \E g \in BasePaths(a) \cap BasePaths(b) :
          /\ {a[k] : k \in pathsOf(a, g)} # {b[k] : k \in pathsOf(b, g)}
          /\ {a[k] : k \in pathsOf(a, g)} \subseteq {b[k] : k \in pathsOf(b, g)}

\* other is m with the values permuted among the keys of each base path.
IsPermutationWithinGroups(m, other) ==
    /\ DOMAIN m = DOMAIN other
    /\ \E pi \in [DOMAIN m -> DOMAIN m] :
          /\ \A k \in DOMAIN m : \E j \in DOMAIN m : pi[j] = k
          /\ \A k \in DOMAIN m :
                /\ extractBasePath(pi[k]) = extractBasePath(k)
                /\ other[k] = m[pi[k]]

\* C10: when b is a with the values permuted among the keys that share a
\* base path, EqualIgnoreOrder(a, b) is true, and Equal(a, b) is false
\* whenever the permutation changes the value at some key.
C10_PermutedValues ==
    IsPermutationWithinGroups(a, b) =>
        \A c \in calls :
            /\ c.op = "EqualIgnoreOrder" => c.out
            /\ (c.op = "Equal" /\ \E k \in DOMAIN a : a[k] # b[k]) => ~c.out

\* C10's case: both methods were called on two maps that differ by a swap
\* of the values of two indexed siblings.
C10_Witness ==
    /\ IsPermutationWithinGroups(a, b)
    /\ a # b
    /\ \E c, d \in calls : c.op = "EqualIgnoreOrder" /\ d.op = "Equal"

\* C19: the list Diffs returns and the list DiffsIgnoreOrder returns are
\* sorted ascending by path string: of two adjacent entries the earlier
\* path is less than or equal to the later one, in whatever order the maps
\* were iterated.
C19_SortedByPath ==
    \A c \in calls :
        c.op \in {"Diffs", "DiffsIgnoreOrder"} =>
            \A i \in 1..(Len(c.out) - 1) : ~StrLess(c.out[i + 1].Path, c.out[i].Path)

\* Both methods have returned a list with entries of different paths.
C19_Witness ==
    \E c, d \in calls :
        /\ c.op = "Diffs" /\ d.op = "DiffsIgnoreOrder"
        /\ \E i, j \in DOMAIN c.out : c.out[i].Path # c.out[j].Path
        /\ \E i, j \in DOMAIN d.out : d.out[i].Path # d.out[j].Path

\* How many entries of a list of diffs are of type `type`, cite a key of
\* `side` under base path g, and carry value v as that key does.
CitedCount(list, side, g, v, type) ==
    Cardinality({i \in DOMAIN list :
        /\ list[i].Type = type
        /\ list[i].Path \in DOMAIN side
        /\ extractBasePath(list[i].Path) = g
        /\ side[list[i].Path] = v
        /\ (IF type = DiffExtra THEN list[i].LeftValue ELSE list[i].RightValue) = v})

Excess(n, k) == IF n > k THEN n - k ELSE 0

\* C11: DiffsIgnoreOrder(a, b) reports, for every base path and every value
\* v, exactly max(0, count_a(v) - count_b(v)) DiffExtra entries and
\* max(0, count_b(v) - count_a(v)) DiffMissing entries, each citing a key of
\* its side that carries v - also for a base path only one side has when
\* both sides have the same number of base paths - and no DiffValue entry.
C11_ExcessPerValue ==
    \A c \in calls :
        c.op = "DiffsIgnoreOrder" =>
            LET m     == Recv(c.recv)
                other == Arg(c.recv)
            IN  /\ \A i \in DOMAIN c.out : c.out[i].Type # DiffValue
                /\ \A g \in BasePaths(m) \cup BasePaths(other) : \A v \in DiffValues :
                      /\ CitedCount(c.out, m, g, v, DiffExtra)
                            = Excess(CountIn(m, g, v), CountIn(other, g, v))
                      /\ CitedCount(c.out, other, g, v, DiffMissing)
                            = Excess(CountIn(other, g, v), CountIn(m, g, v))

-----------------------------------------------------------------------------
(* Claims about the tree and the serializer (checked under SpecTree)       *)

\* The element nodes that carry the entry of key k: the element node whose
\* path is k, or the element node that has the attribute node of path k.
Holders(k) ==
    {n \in 1..Len(nodes) :
        /\ ~nodes[n].isAttr
        /\ \/ nodes[n].path = k
           \/ \E i \in 1..Len(nodes[n].attributes) :
                 nodes[nodes[n].attributes[i]].path = k}

\* How often node n occurs in the child list of node p, and the parents of n.
Occurrences(p, n) ==
    Cardinality({i \in 1..Len(nodes[p].children) : nodes[p].children[i] = n})
Parents(n) == {p \in 1..Len(nodes) : Occurrences(p, n) > 0}

RECURSIVE Up(_, _)
Up(n, steps) ==
    IF steps = 0 THEN {n} ELSE UNION {Up(p, steps - 1) : p \in Parents(n)}

\* The segment of key k that names the element carrying its entry, and the
\* element nodes that stand for segment j of k (segment 2 is the root).
HolderSegment(k) ==
    LET parts == Split(k, "/")
    IN  IF HasPrefix(parts[Len(parts)], "@") THEN Len(parts) - 1 ELSE Len(parts)
SegmentNodes(k, j) == UNION {Up(n, HolderSegment(k) - j) : n \in Holders(k)}

\* k1 and k2 differ in segment j, and there only in the index.
DifferOnlyInIndexAt(k1, k2, j) ==
    LET p1 == Split(k1, "/")
        p2 == Split(k2, "/")
    IN  /\ Len(p1) = Len(p2)
        /\ j \in 1..Len(p1)
        /\ p1[j] # p2[j]
        /\ StripIndex(p1[j]) = StripIndex(p2[j])
        /\ \A i \in 1..Len(p1) : i # j => p1[i] = p2[i]

\* C6: once the tree is built, two keys that differ only in the index of a
\* segment have two distinct element nodes for that segment, also when the
\* indexed element is a synthesized container; and every segment of every
\* key below the root has exactly one element node, which occurs exactly
\* once in the child list of exactly one parent.
C6_DistinctNodesPerIndex ==
    tpc \in {"write", "done"} =>
        /\ \A k1, k2 \in DOMAIN xmap : \A j \in 3..4 :
              DifferOnlyInIndexAt(k1, k2, j) =>
                  SegmentNodes(k1, j) \cap SegmentNodes(k2, j) = {}
        /\ \A k \in DOMAIN xmap : \A j \in 3..HolderSegment(k) :
              /\ Cardinality(SegmentNodes(k, j)) = 1
              /\ \A n \in SegmentNodes(k, j) :
                    /\ Cardinality(Parents(n)) = 1
                    /\ \A p \in Parents(n) : Occurrences(p, n) = 1

\* strconv.Atoi of a string of digits.
RECURSIVE Atoi(_)
Atoi(ds) ==
    IF ds = "" THEN 0
    ELSE 10 * Atoi(Upto(ds, Len(ds) - 1))
         + Index(Digits, SubSeq(ds, Len(ds), Len(ds)))

\* The last segment of a path, whether it carries an index, the index, and
\* the path up to the last segment.
LastSegment(path) == Split(path, "/")[Len(Split(path, "/"))]
IsIndexed(path) == Contains(LastSegment(path), "[")
SiblingIndex(path) ==
    LET last == LastSegment(path)
    IN  Atoi(SubSeq(last, Index(last, "[") + 2, Len(last) - 1))
ParentOf(path) == Upto(path, Len(path) - Len(LastSegment(path)) - 1)

\* c and d are indexed siblings of one name under one parent.
SameNamedSiblings(c, d) ==
    /\ IsIndexed(nodes[c].path) /\ IsIndexed(nodes[d].path)
    /\ nodes[c].name = nodes[d].name
    /\ ParentOf(nodes[c].path) = ParentOf(nodes[d].path)

\* C7: ToXML emits the same-named siblings of one parent in ascending
\* numeric index order: whenever writeXMLNode has yet to write a child of a
\* node, every same-named sibling it has already written carries a smaller
\* index (so item[2] is written before item[10]).
C7_NumericSiblingOrder ==
    \A f \in 1..Len(wstack) :
        LET pending == {wstack[f].rest[i] : i \in 1..Len(wstack[f].rest)}
            all     == {nodes[wstack[f].node].children[i] :
                           i \in 1..Len(nodes[wstack[f].node].children)}
        IN  \A c \in pending : \A d \in all \ pending :
                SameNamedSiblings(c, d) =>
                    SiblingIndex(nodes[d].path) < SiblingIndex(nodes[c].path)

\* Key k begins with a root segment: a "/" and a name.
HasRootSegment(k) == HasPrefix(k, "/") /\ Len(Split(k, "/")[2]) > 0

\* C15: ToXML on a map with no entry fails with "empty XMLMap"; on a map
\* with entries of which no key begins with a root segment (such as
\* {"nopath": "v"}) it fails with "no root element found"; and in both
\* cases nothing is written.
C15_ToXMLErrors ==
    tpc # "start" =>
        /\ Len0(xmap) = 0 =>
              (tpc = "error" /\ terr = "empty XMLMap" /\ output = <<>>)
        /\ (Len0(xmap) > 0 /\ \A k \in DOMAIN xmap : ~HasRootSegment(k)) =>
              (tpc = "error" /\ terr = "no root element found" /\ output = <<>>)

-----------------------------------------------------------------------------
(* Claims about ParseToMap (checked under Spec, SpecShort and SpecNs)      *)

\* The elements of the document that share parent and name with element e,
\* and the place of e among them in document order.
SiblingsOf(e) ==
    {f \in 1..Len(doc) : doc[f].parent = doc[e].parent /\ doc[f].name = doc[e].name}
Ordinal(e) == Cardinality({f \in SiblingsOf(e) : f <= e})

\* The key the specification gives element e: the key of its parent, its
\* name, and its place among its same-named siblings when there are several.
RECURSIVE KeyOf(_)
KeyOf(e) ==
    IF e = 0 THEN ""
    ELSE KeyOf(doc[e].parent) \o "/" \o doc[e].name
         \o (IF Cardinality(SiblingsOf(e)) >= 2
             THEN "[" \o Sprint(Ordinal(e)) \o "]" ELSE "")

\* The keys of res at path or beneath it.
KeysUnder(res, path) ==
    {k \in DOMAIN res : k = path \/ HasPrefix(k, path \o "/")}

\* Element e is one of several same-named siblings, or lies beneath one.
RECURSIVE InRepeatedGroup(_)
InRepeatedGroup(e) ==
    /\ e # 0
    /\ \/ Cardinality(SiblingsOf(e)) >= 2
       \/ InRepeatedGroup(doc[e].parent)

\* C1: when ParseToMap returns a map, the i-th of n >= 2 same-named children
\* of a parent is keyed with the suffix [i] - its text is stored under that
\* key, and so is the text of every element beneath it - and the indices
\* that occur among the keys for that parent and name are exactly 1..n:
\* every one of them occurs, also that of an empty element, and none beyond.
C1_ContiguousIndices ==
    ppc = "done" =>
        \A e \in 1..Len(doc) :
            /\ (InRepeatedGroup(e) /\ doc[e].text # "") =>
                  /\ KeyOf(e) \in DOMAIN result
                  /\ result[KeyOf(e)] = ValueTransform(options.ValueTransform, doc[e].text)
            /\ Cardinality(SiblingsOf(e)) >= 2 =>
                  /\ KeysUnder(result, KeyOf(e)) # {}
                  /\ KeysUnder(result,
                        KeyOf(doc[e].parent) \o "/" \o doc[e].name \o "["
                           \o Sprint(Cardinality(SiblingsOf(e)) + 1) \o "]") = {}

\* No key is at or beneath the un-suffixed path of a child name that has
\* occurred twice under its parent.
C2_NoStaleKeys ==
    \A base \in DOMAIN elementCounts :
        elementCounts[base] >= 2 => KeysUnder(result, base) = {}

\* A step that opens the second occurrence of base moves every entry at or
\* beneath base to base[1] and the remainder of its key, with its value, to
\* a key that was free, and leaves every other entry as it was.
C2_RekeyStep ==
    \A base \in DOMAIN elementCounts :
        (elementCounts[base] = 1 /\ ppc' = "run" /\ elementCounts'[base] = 2) =>
            /\ \A k \in KeysUnder(result, base) :
                  LET newKey == base \o "[1]" \o From(k, Len(base))
                  IN  /\ newKey \notin DOMAIN result
                      /\ newKey \in DOMAIN result'
                      /\ result'[newKey] = result[k]
            /\ \A k \in DOMAIN result \ KeysUnder(result, base) :
                  k \in DOMAIN result' /\ result'[k] = result[k]

\* C2: at the moment the second occurrence of a child name under one parent
\* is opened, every entry keyed at the un-suffixed base path or beneath it
\* is re-keyed to base[1] and its remainder with its value unchanged, no
\* entry is lost or merged with another, and in every later state of the
\* parse no key is equal to the base path or starts with base and "/".
C2_RetroactiveRekey == [][C2_RekeyStep]_vars /\ []C2_NoStaleKeys

\* The step delivers a start element to ParseToMap.
StartDelivered ==
    IF reader.source = "written"
    THEN reader.rest # <<>> /\ Head(reader.rest).kind = "start" /\ reader' # reader
    ELSE reader' # <<>> /\ reader'.starts = reader.starts - 1

\* A root element has been opened and closed, and no element is open.
RootClosed == ppc = "run" /\ doc # <<>> /\ dstack = <<>>

C12_Step ==
    (RootClosed /\ StartDelivered) =>
        /\ ppc' = "error"
        /\ perr' = "XML syntax error: multiple root elements"
        /\ result' = <<>>

\* The elements of the document opened while no element was open.
Roots == {e \in 1..Len(doc) : doc[e].parent = 0}

\* C12: when a start element is delivered while no element is open and a
\* root element has already been opened and closed, ParseToMap fails with
\* "XML syntax error: multiple root elements" and returns no map; so no
\* parse that is under way or has succeeded has opened a second root.
C12_MultipleRoots ==
    /\ [][C12_Step]_vars
    /\ [](ppc \in {"run", "done"} => Cardinality(Roots) <= 1)

\* C12's case: the call failed on the start tag of a second root element.
C12_Witness ==
    /\ ppc = "error"
    /\ perr = "XML syntax error: multiple root elements"
    /\ tokenErr = ""
    /\ reader.starts = ShortStarts - 2

\* The step in which decoder.Token() finds the end of the stream.
StreamEnds ==
    /\ ppc = "run"
    /\ tokenErr' \in {"EOF", "XML syntax error: unexpected EOF"}

C13_Step ==
    (StreamEnds /\ Len(pathStack) > 0) =>
        /\ ppc' = "error"
        /\ perr' = "XML syntax error: unexpected EOF"
        /\ result' = <<>>

\* C13: when the stream ends while ParseToMap's element stack is not empty,
\* ParseToMap fails with the syntax error for unclosed elements (the
\* Decoder's "unexpected EOF") and returns no map; so a parse that has
\* succeeded has closed every element it opened.
C13_UnclosedElements ==
    /\ [][C13_Step]_vars
    /\ [](ppc = "done" => Len(pathStack) = 0)

\* C13's case: the call failed at the end of a stream that had opened an
\* element and stored an entry for it.
C13_Witness ==
    /\ ppc = "error"
    /\ perr = "XML syntax error: unexpected EOF"
    /\ reader.starts < ShortStarts
    /\ reader.texts < ShortTexts

C14_Step ==
    (StreamEnds /\ tokenErr' = "EOF" /\ (doc = <<>> \/ Len0(result) = 0)) =>
        /\ ppc' = "error"
        /\ perr' = "EOF"
        /\ result' = <<>>

\* C14: when the stream ends without an error of the tokenizer and either
\* no element was ever opened or no entry was stored, ParseToMap fails with
\* the error "EOF", which is none of the syntax errors; so a map ParseToMap
\* returns is never empty.
C14_EmptyInput ==
    /\ [][C14_Step]_vars
    /\ [](ppc = "done" => Len0(result) > 0)
    /\ [](perr = "EOF" => (tokenErr = "EOF" /\ ~HasPrefix(perr, "XML syntax error")))

\* The transforms among the options given, in the order given, and f_k(...
\* f_2(f_1(str))) for the transforms f_1, ..., f_k.
RECURSIVE TransformsGiven(_)
TransformsGiven(list) ==
    IF list = <<>> THEN <<>>
    ELSE (IF Head(list).option = "WithValueTransform" THEN <<Head(list).transform>>
          ELSE <<>>) \o TransformsGiven(Tail(list))

RECURSIVE ApplyInOrder(_, _)
ApplyInOrder(fs, str) ==
    IF fs = <<>> THEN str
    ELSE ApplyInOrder(Tail(fs), applyTransform(Head(fs), str))

\* The strings a parse may capture: the texts of the documents, trimmed and
\* not blank, and the values of the attributes delivered so far.
CapturedTexts == {TrimSpace(Unescape(t)) : t \in Texts} \ {""}
CapturedAttrValues == {att.Value : att \in UNION {doc[e].attrs : e \in 1..Len(doc)}}

\* The keys that can be made of the names of the document as they were
\* resolved: for element e its parent's key, its name and possibly an index;
\* for an attribute its element's key, "/@", and its local name, alone or
\* after a prefix or URI.
RECURSIVE ElementKeys(_)
ElementKeys(e) ==
    IF e = 0 THEN {""}
    ELSE {p \o "/" \o doc[e].name \o ix :
            p \in ElementKeys(doc[e].parent),
            ix \in {""} \cup {"[" \o Sprint(i) \o "]" : i \in 1..Len(doc)}}

AttributeNames(att) ==
    {att.Name.Local}
    \cup {q \o ":" \o att.Name.Local : q \in ({att.Name.Space} \cup DOMAIN namespaces) \ {""}}

UntransformedKeys ==
    UNION {ElementKeys(e) : e \in 0..Len(doc)}
    \cup UNION {{p \o "/@" \o n : p \in ElementKeys(e),
                                  n \in UNION {AttributeNames(att) : att \in doc[e].attrs}} :
                e \in 1..Len(doc)}

\* C16: when WithValueTransform is supplied k times with f_1, ..., f_k in
\* that order, every value ParseToMap stores - the text of an element or
\* the value of an attribute - is f_k(...f_2(f_1(s))) of the string s that
\* was captured, and every key is made of the names of the document as
\* they are: no transform is applied to any part of a key.
C16_TransformsInOrder ==
    LET fs == TransformsGiven(opts)
    IN  /\ \A k \in DOMAIN result :
              /\ k \in UntransformedKeys
              /\ result[k] \in {ApplyInOrder(fs, str) :
                                  str \in (IF Contains(k, "/@") THEN CapturedAttrValues
                                           ELSE CapturedTexts)}
        /\ \A e \in 1..Len(doc) :
              (doc[e].text # "" /\ KeyOf(e) \in DOMAIN result) =>
                  result[KeyOf(e)] = ApplyInOrder(fs, doc[e].text)

\* C16's case: two different transforms were supplied, and the map returned
\* holds the text of an element whose transforms do not commute on it and
\* the value of an attribute.
C16_Witness ==
    /\ ppc = "done"
    /\ Len(TransformsGiven(opts)) = 2
    /\ TransformsGiven(opts)[1] # TransformsGiven(opts)[2]
    /\ \E k \in DOMAIN result : Contains(k, "/@")
    /\ \E e \in 1..Len(doc) :
          /\ doc[e].text # ""
          /\ KeyOf(e) \in DOMAIN result
          /\ ApplyInOrder(<<"upper", "suffix">>, doc[e].text)
                # ApplyInOrder(<<"suffix", "upper">>, doc[e].text)

\* The keys that can be made of local names alone.
RECURSIVE LocalKeys(_)
LocalKeys(e) ==
    IF e = 0 THEN {""}
    ELSE {p \o "/" \o doc[e].local \o ix :
            p \in LocalKeys(doc[e].parent),
            ix \in {""} \cup {"[" \o Sprint(i) \o "]" : i \in 1..Len(doc)}}

LocalNameKeys ==
    UNION {LocalKeys(e) : e \in 0..Len(doc)}
    \cup UNION {{p \o "/@" \o att.Name.Local : p \in LocalKeys(e), att \in doc[e].attrs} :
                e \in 1..Len(doc)}

\* Element e is in a namespace: its name as written has a prefix, or a
\* default namespace is in scope where it is opened.
InNamespace(e) == doc[e].scoped # {doc[e].local}

\* Name n is local after a qualifier and a colon.
Qualified(n, local) ==
    /\ Len(n) > Len(local) + 1
    /\ From(n, Len(n) - Len(local) - 1) = ":" \o local

\* C17: with WithNamespaces(false) every segment of every key ParseToMap
\* stores is a local name (with its index where there is one) whatever the
\* document declares: no prefix and no URI; with no option given the names
\* of elements in a namespace are written with their qualifier.
C17_LocalNamesOnly ==
    ppc \in {"run", "done"} =>
        /\ ~options.IncludeNamespaces =>
              /\ \A k \in DOMAIN result : k \in LocalNameKeys
              /\ \A e \in 1..Len(doc) : doc[e].name = doc[e].local
        /\ opts = <<>> =>
              /\ options.IncludeNamespaces
              /\ \A e \in 1..Len(doc) :
                    InNamespace(e) => Qualified(doc[e].name, doc[e].local)

\* C17's case: with WithNamespaces(false) the map returned holds the text of
\* an element written with a prefix that the document declares.
C17_Witness ==
    /\ ppc = "done"
    /\ opts = <<WithNamespaces(FALSE)>>
    /\ "p" \in DOMAIN namespaces
    /\ \E e \in 1..Len(doc) :
          /\ doc[e].written = "p:b"
          /\ doc[e].text # ""
          /\ KeyOf(e) \in DOMAIN result

\* No parent has two children of one resolved name.
NoRepeatedSiblings == \A e \in 1..Len(doc) : Cardinality(SiblingsOf(e)) = 1

\* The attributes of the document that are not namespace declarations, each
\* with its element.
AttributesOfDoc == UNION {{<<e, att>> : att \in doc[e].attrs} : e \in 1..Len(doc)}

\* The document has a root element and no text outside it: text outside
\* every element is the only thing stored under the empty path.
WellFormedDoc == Len(doc) >= 1 /\ "" \notin DOMAIN result

RECURSIVE NamePath(_)
NamePath(e) == IF e = 0 THEN "" ELSE NamePath(doc[e].parent) \o "/" \o doc[e].name

\* No two elements have the same path of resolved names, and no element has
\* two attributes of one local name.
DistinctPaths ==
    /\ \A e, f \in 1..Len(doc) : e # f => NamePath(e) # NamePath(f)
    /\ \A e \in 1..Len(doc) : \A att1, att2 \in doc[e].attrs :
          att1 # att2 => att1.Name.Local # att2.Name.Local

\* The elements that have text of their own that is not blank.
ElementsWithText == {e \in 1..Len(doc) : doc[e].text # ""}

ValueOf(e) == ValueTransform(options.ValueTransform, doc[e].text)

\* A chunk of text is delivered inside an element and leaves the element's
\* last text as it was: the chunk is blank, or repeats that text.
C25_Step ==
    (/\ ppc = "run" /\ ppc' = "run"
     /\ reader.source = "any" /\ reader'.texts < reader.texts
     /\ dstack # <<>>
     /\ doc' = doc) => result' = result

\* C25: when ParseToMap returns, the value stored at the key of every
\* element that had text is the transform of the trimmed last chunk of text
\* that was not blank and was delivered while the element was the innermost
\* open one - a later chunk overwrites an earlier one, also across child
\* elements - and a chunk that is blank creates and changes no entry.
C25_LastTextWins ==
    /\ [][C25_Step]_vars
    /\ [](ppc = "done" =>
            \A e \in ElementsWithText :
                KeyOf(e) \in DOMAIN result /\ result[KeyOf(e)] = ValueOf(e))

\* The names processAttribute may resolve for attribute att.
ResolvedAttrNames(att) ==
    IF options.IncludeNamespaces /\ att.Name.Space # ""
    THEN {q \o ":" \o att.Name.Local : q \in ({att.Name.Space} \cup DOMAIN namespaces) \ {""}}
    ELSE {att.Name.Local}

\* The keys of attributes in the map.
AttributeKeys == {k \in DOMAIN result : Contains(k, "/@")}

\* C26: every attribute of an opened element that is not a namespace
\* declaration is stored under the element's path, "/@" and the resolved
\* name of the attribute, with its transformed value; the element's path
\* carries its index when it is a second or later same-named sibling, and
\* [1] for the first sibling once a second has appeared; xmlns and xmlns:*
\* attributes produce no entry.
C26_AttributesStored ==
    ppc \in {"run", "done"} =>
        /\ \A ea \in AttributesOfDoc :
              \E n \in ResolvedAttrNames(ea[2]) :
                  /\ KeyOf(ea[1]) \o "/@" \o n \in DOMAIN result
                  /\ result[KeyOf(ea[1]) \o "/@" \o n]
                        = ValueTransform(options.ValueTransform, ea[2].Value)
        /\ \A k \in AttributeKeys : ~Contains(k, "/@xmlns")
        /\ Cardinality(AttributeKeys) <= Cardinality(AttributesOfDoc)

\* C27: occurrences are counted per parent instance: the path of every open
\* element is the path of its parent instance followed by its name, with
\* an index only when the same parent instance has an earlier child of
\* that name - so a child that occurs once under each of several
\* same-named parents has no index under any of them, and no index
\* depends on the children of another parent.
C27_CountedPerParent ==
    ppc = "run" =>
        \A i \in 1..Len(pathStack) : pathStack[i] = KeyOf(dstack[i].elem)

\* Key k begins with "/" and the name of the root element, and goes on, if
\* it goes on, with an index or a further segment.
RootedKey(k) ==
    /\ doc # <<>>
    /\ LET root == "/" \o doc[1].name
       IN  \/ k = root
           \/ HasPrefix(k, root \o "/")
           \/ HasPrefix(k, root \o "[")

\* C28: at every point of a parse every key of the map is a path that
\* begins with "/" and the name of the root element; no key is the empty
\* string, so text that arrives while no element is open - before the root
\* is opened or after it is closed - adds no entry.
C28_RootedKeys ==
    ppc \in {"run", "done"} =>
        \A k \in DOMAIN result : k # "" /\ RootedKey(k)

\* C20: namespace declarations are scoped to the declaring element: every
\* element is named by the bindings of its own start tag and of its
\* ancestors, so a binding that was introduced or shadowed inside a
\* subtree that is closed has no effect on the key of a later element.
C20_ScopedDeclarations ==
    (ppc \in {"run", "done"} /\ options.IncludeNamespaces) =>
        \A e \in 1..Len(doc) : doc[e].name \in doc[e].scoped

\* C21: ParseToMap is deterministic: the same stream of tokens and the same
\* options give the same keys, so wherever a name is resolved there is one
\* name buildElementName can return - also when two prefixes are bound to
\* the URI of the name at that point.
C21_Deterministic ==
    ppc \in {"run", "done"} =>
        \A e \in 1..Len(doc) : doc[e].resolved = {doc[e].name}

-----------------------------------------------------------------------------
(* Claims about ToXML called twice (checked under SpecOrder)               *)

\* C22: ToXML is deterministic: a second call on the same map returns what
\* the first call returned, token for token - also when two sibling names
\* tie under comparePaths, when a name contains two well-known names of
\* different rank, and when the keys do not share their first segment.
C22_SameOutput ==
    (round # <<>> /\ round.stage = "again" /\ tpc \in {"done", "error"}) =>
        Returned = round.first

\* The nodes writeXMLNode is called on when it is called on node n.
RECURSIVE WrittenFrom(_)
WrittenFrom(n) ==
    {n} \cup UNION {WrittenFrom(nodes[n].children[i]) : i \in DOMAIN nodes[n].children}

\* The ranks of the well-known names a segment contains.
RanksIn(segment) ==
    {specialElements[name] : name \in {w \in DOMAIN specialElements : Contains(segment, w)}}

\* The rule for two sibling paths of equal depth puts pathI first: at the
\* first differing segment both contain a well-known name and that of
\* pathI has the lower rank, or not both do and that of pathI is the
\* smaller string.
ComesFirst(pathI, pathJ) ==
    LET partsI == Split(pathI, "/")
        partsJ == Split(pathJ, "/")
    IN  /\ Len(partsI) = Len(partsJ)
        /\ \E k \in 1..Len(partsI) :
              /\ partsI[k] # partsJ[k]
              /\ \A j \in 1..(k - 1) : partsI[j] = partsJ[j]
              /\ IF RanksIn(partsI[k]) # {} /\ RanksIn(partsJ[k]) # {}
                 THEN \A ri \in RanksIn(partsI[k]), rj \in RanksIn(partsJ[k]) : ri < rj
                 ELSE StrLess(partsI[k], partsJ[k])

\* C24: in the output of ToXML the children of a node are emitted in
\* comparator order: of two children of one node, the one the rule puts
\* first (lower rank when both segments contain a well-known name, else the
\* smaller segment) is never emitted after the other.
C24_ComparatorOrder ==
    tpc = "done" =>
        \A n \in WrittenFrom(1) :
            \A i, j \in DOMAIN nodes[n].children :
                i < j => ~ComesFirst(nodes[nodes[n].children[j]].path,
                                     nodes[nodes[n].children[i]].path)

-----------------------------------------------------------------------------
(* Claims about the pooled builders (checked under SpecPool)               *)

\* The goroutines that hold builder `builder`.
BorrowersOf(builder) == {g \in Goroutines : goroutines[g].pathBuilder = builder}

\* C23: with several ParseToMap, ToXML and DiffsIgnoreOrder calls running
\* concurrently, a pooled builder is held by at most one call at any time
\* and does not lie in the pool while it is held; a call that borrowed a
\* builder puts it back exactly once on every exit path, with or without
\* an error; and every string a call reads from the builder is what that
\* call wrote since its own Reset, whatever an earlier borrower left.
C23_PooledBuilders ==
    /\ \A builder \in 1..Len(builders) :
          /\ Cardinality(BorrowersOf(builder)) <= 1
          /\ BorrowersOf(builder) # {} => builder \notin pathBuilderPool
    /\ \A g \in Goroutines :
          LET c == goroutines[g]
          IN  /\ c.puts <= c.gets /\ c.gets <= 1
              /\ c.pc \in {"holding", "reset", "deferred"} =>
                    (c.gets = 1 /\ c.puts = 0 /\ c.pathBuilder # 0)
              /\ c.pc = "returned" =>
                    /\ c.puts = c.gets
                    /\ c.pathBuilder = 0
                    /\ c.op \in {"ParseToMap", "DiffsIgnoreOrder"} => c.gets = 1
              /\ (c.pc \in {"holding", "deferred", "returned"} /\ c.uses > 0) =>
                    c.str = c.wrote

\* One call has used a builder, returned an error and put the builder back;
\* another call has borrowed that same builder since - the only one ever
\* allocated - and has read strings from it twice.
C23_Witness ==
    \E g, h \in Goroutines :
        /\ g # h
        /\ goroutines[g].pc = "returned" /\ goroutines[g].err
        /\ goroutines[g].puts = 1 /\ goroutines[g].uses > 0
        /\ goroutines[h].pc = "holding" /\ goroutines[h].uses = MaxUses
        /\ goroutines[h].str # ""
        /\ Len(builders) = 1

\* What a sequence of tokens represents: of every text token the path of
\* names of the element it lies in and the text, of every attribute of a
\* start token the path of names of its element with "/@" and its name, and
\* the value.  open is the path of names of the innermost open element.
RECURSIVE Represented(_, _, _)
Represented(tokens, open, acc) ==
    IF tokens = <<>> THEN acc
    ELSE LET t    == Head(tokens)
             here == open \o "/" \o t.name
         IN  IF t.kind = "start"
             THEN Represented(Tail(tokens), here,
                      acc \o [i \in 1..Len(t.attrs) |->
                                 [path  |-> here \o "/@" \o t.attrs[i].name,
                                  value |-> t.attrs[i].value]])
             ELSE IF t.kind = "text"
             THEN Represented(Tail(tokens), open,
                      Append(acc, [path |-> open, value |-> t.value]))
             ELSE Represented(Tail(tokens), ParentOf(open), acc)

\* How often the tokens written represent value v at the path of names g.
TimesWritten(g, v) ==
    LET written == Represented(output, "", <<>>)
    IN  Cardinality({i \in 1..Len(written) :
                        written[i].path = g /\ written[i].value = v})

\* C30: whenever ToXML succeeds, every entry of the map is represented in
\* the emitted events exactly once: at every path of names, the texts and
\* the attributes written with a value are as many as the entries of the
\* map with that path of names and that value, so no entry is dropped.
C30_EveryEntryOnce ==
    tpc = "done" =>
        \A k \in DOMAIN xmap :
            TimesWritten(extractBasePath(k), xmap[k])
                = CountIn(xmap, extractBasePath(k), xmap[k])

-----------------------------------------------------------------------------
(* Claims about comparePaths (checked under SpecCompare)                   *)

\* comparePaths has answered that x comes before y; that it does not.
Before(x, y) == [pathI |-> x, pathJ |-> y, less |-> TRUE] \in lessCalls
NotBefore(x, y) == [pathI |-> x, pathJ |-> y, less |-> FALSE] \in lessCalls

\* C29: comparePaths is a strict weak ordering: no path comes before
\* itself, no two paths come each before the other, x before y and y before
\* z leave no answer that x is not before z, and no three paths come before
\* one another in a cycle.
C29_StrictWeakOrdering ==
    \A x, y, z \in ComparedPaths :
        /\ ~Before(x, x)
        /\ ~(Before(x, y) /\ Before(y, x))
        /\ (Before(x, y) /\ Before(y, z)) => ~NotBefore(x, z)
        /\ ~(Before(x, y) /\ Before(y, z) /\ Before(z, x))

-----------------------------------------------------------------------------
(* Claims about the round trip (checked under SpecRound)                   *)

\* C5: for a document parsed without a value transform (and with no text
\* outside its root element), ToXML succeeds on the map ParseToMap returned,
\* ParseToMap succeeds on what ToXML wrote, and the map it returns is Equal
\* to the first - also when repeated siblings carry no text of their own.
C5_RoundTrip ==
    (round # <<>> /\ "" \notin DOMAIN round.first) =>
        /\ round.stage = "toxml" => tpc # "error"
        /\ round.stage = "second" =>
              /\ ppc # "error"
              /\ ppc = "done" => (Equal(result, round.first) /\ Equal(round.first, result))

=============================================================================
